---------------------------- MODULE Spec2Model ----------------------------
(***************************************************************************)
(* A model of the sc-theater synchronisation server:                       *)
(*   lib/state-manager.js    StateManager (master state, rate controller)  *)
(*                           and AuthManager (sessions)                    *)
(*   lib/websocket-server.js WebSocketServer (connections, dispatch)       *)
(*   lib/video-service.js    VideoService (scan and encode)                *)
(*                                                                         *)
(* Units.  The wall clock `now` (Date.now()) is counted in whole seconds.  *)
(* Playback positions are counted in hundredths of a second and playback   *)
(* rates in percent, so that                                               *)
(*   currentTime + (now - lastUpdateTime)/1000 * playbackRate              *)
(* is the exact integer currentTime + (now - lastUpdateTime)*playbackRate. *)
(***************************************************************************)
EXTENDS Integers, Sequences, FiniteSets, TLC

(* ------------------------------ bounds -------------------------------- *)
\* number of connection slots (sockets alive at the same time)
NumConns == 2
\* the clients beyond those sockets that are registered from the start where
\* the rate controller is followed
NumPreset == 1
\* the wall clock runs from 0 to MaxTime
MaxTime == 2
\* the largest playback position (hundredths of a second) a run explores
MaxPosition == 200
\* number of session tokens createSession may mint
MaxTokens == 2
\* config.SESSION_EXPIRY, in clock ticks
SessionExpiry == 1
\* outstanding sendVideoList continuations per connection
MaxPending == 1
\* scanAndEncodeVideos calls that may overlap
NumScans == 2
\* encodes started in one run of the model
MaxEncodes == 3
\* the sync-interval configurations explored: MIN, MAX and STEP up to this
MaxConfig == 3
\* the longest stream name and subpath of an HLS request, in characters
MaxPathLen == 3

(* ------------------------- program constants -------------------------- *)
DEFAULT_SYNC_INTERVAL == 1000
MIN_SYNC_INTERVAL == 1000
MAX_SYNC_INTERVAL == 1000
DRIFT_THRESHOLD_LOW == 50
DRIFT_THRESHOLD_HIGH == 150
SYNC_INTERVAL_ADJUST_STEP == 1000
MIN_PLAYBACK_RATE == 90
MAX_PLAYBACK_RATE == 100
PLAYBACK_RATE_ADJUST_STEP == 1
\* RATE_ADJUSTMENT_INTERVAL (1000 ms), in clock ticks
RATE_ADJUSTMENT_INTERVAL == 1
CLIENT_BEHIND_THRESHOLD == -100
NAME_MAX == 30

(* ------------------------------ helpers ------------------------------- *)
Max(a, b) == IF a >= b THEN a ELSE b
Min(a, b) == IF a <= b THEN a ELSE b

\* JavaScript undefined / null / NaN for an optional value: the empty
\* tuple; a present value x is the one-element tuple <<x>>.
Undefined == << >>
Some(x) == << x >>

\* the sockets: those that connect and close, then the preset ones
Conns == 1 .. NumConns + NumPreset
Tokens == 1 .. MaxTokens

ADMIN_PASSWORD == "admin-secret"
VIEWER_PASSWORD == "viewer-secret"

\* 'Anonymous'
Anonymous == << "A", "n", "o", "n", "y", "m", "o", "u", "s" >>

\* the characters /^[a-zA-Z0-9_-]+$/ accepts, as far as the inputs use them
NameChars == { "a", "b", "Z", "0", "_", "-" }

(* ---------------------------- the state ------------------------------- *)
VARIABLES
    now,                    \* Date.now()
    masterState,            \* StateManager.masterState
    rateAdjustTimerId,      \* the rate-adjust interval: the time it was set
                            \* or last fired, Undefined while it is not set
    masterBroadcastTimerId, \* TRUE iff the master-broadcast interval is set
    connectedClients,       \* StateManager.connectedClients: ws -> clientInfo
    readyState,             \* per socket: "idle" (no socket), "open", "closing"
    authTimeout,            \* per socket: TRUE iff its auth timer is pending
    pendingVideoList,       \* per socket: sendVideoList calls awaiting getVideoList
    pendingAdminData,       \* per socket: sendInitialAdminData awaiting its list
    activeSessions,         \* AuthManager.activeSessions: token -> session
    nextToken,              \* the next token generateSessionToken returns
    minted,                 \* history: token -> the session createSession stored
    authFailed,             \* history: sockets that were answered auth_fail
    syncTimers,             \* per socket: the pending timeouts of scheduleNextSync,
                            \* each the time it is due, in the order they were set
    sendThrows,             \* the sockets on which ws.send throws
    checksSinceMessage,     \* history, per socket: the heartbeat checks since
                            \* the last frame arrived on it
    encodingQueue,          \* VideoService.encodingQueue
    encodes,                \* the _encodeVideo calls, in the order they started
    processed,              \* output names whose master.m3u8 exists on disk
    hlsStreams,             \* VideoService.hlsStreams (the cached list)
    scans,                  \* per scan run: its position in scanAndEncodeVideos
    hlsRequest,             \* the GET /video request in hand and its response
    shutDown                \* TRUE once the termination signal was handled

syncVars == << now, masterState, rateAdjustTimerId, masterBroadcastTimerId,
               connectedClients, readyState, authTimeout, pendingVideoList,
               pendingAdminData, activeSessions, nextToken, minted, authFailed,
               syncTimers, sendThrows, checksSinceMessage >>
videoVars == << encodingQueue, encodes, processed, hlsStreams, scans >>
vars == << syncVars, videoVars, hlsRequest, shutDown >>

(* ------------------- StateManager: the master state -------------------- *)
\* the master state the constructor builds at time t
InitialMasterState(t) ==
    [ currentVideo   |-> Undefined,
      currentTime    |-> 0,
      isPlaying      |-> FALSE,
      lastUpdateTime |-> t,
      playbackRate   |-> MAX_PLAYBACK_RATE ]

\* a getEffectiveTime that takes the elapsed time with the wrong sign
GetEffectiveTimeReversed(ms, t) ==
    LET actualCurrentTime ==
            IF ms.isPlaying
            THEN ms.currentTime + (ms.lastUpdateTime - t) * ms.playbackRate
            ELSE ms.currentTime
    IN  Max(0, actualCurrentTime)

\* getEffectiveTime(), evaluated at wall-clock time t
GetEffectiveTime(ms, t) ==
    LET actualCurrentTime ==
            IF ms.isPlaying
            THEN ms.currentTime + (t - ms.lastUpdateTime) * ms.playbackRate
            ELSE ms.currentTime
    IN  Max(0, actualCurrentTime)

\* newState.currentVideo !== this.masterState.currentVideo, where the left
\* side may be undefined and the right side null or a string
VideoDiffers(newVideo, masterVideo) ==
    newVideo = Undefined \/ newVideo # masterVideo

\* a setMasterState whose first block never rewrites the time marker
KeepMarkerBeforeChange(ms, newState, t) == ms

\* the first block of setMasterState: "update current time before changing
\* play state or video"
RewriteBeforeChange(ms, newState, t) ==
    IF ms.isPlaying /\ ( newState.isPlaying = Some(FALSE)
                         \/ VideoDiffers(newState.currentVideo, ms.currentVideo) )
    THEN [ ms EXCEPT !.currentTime = GetEffectiveTime(ms, t) ]
    ELSE ms

\* a video change that keeps the position and the play state of the old video
ApplyVideoOnly(ms, newState, t) ==
    IF newState.currentVideo # Undefined /\ newState.currentVideo # ms.currentVideo
    THEN [ ms EXCEPT !.currentVideo = newState.currentVideo,
                     !.lastUpdateTime = t ]
    ELSE ms

\* if (newState.currentVideo !== undefined && ... !== masterState.currentVideo)
ApplyVideo(ms, newState, t) ==
    IF newState.currentVideo # Undefined /\ newState.currentVideo # ms.currentVideo
    THEN [ ms EXCEPT !.currentVideo = newState.currentVideo,
                     !.currentTime = 0,
                     !.isPlaying = FALSE,
                     !.playbackRate = MAX_PLAYBACK_RATE,
                     !.lastUpdateTime = t ]
    ELSE ms

\* a play-state change that leaves the rate as the controller set it
ApplyPlayingKeepRate(ms, newState, t) ==
    IF newState.isPlaying # Undefined /\ newState.isPlaying # Some(ms.isPlaying)
    THEN [ ms EXCEPT !.isPlaying = newState.isPlaying[1],
                     !.lastUpdateTime = t ]
    ELSE ms

\* if (newState.isPlaying !== undefined && ... !== masterState.isPlaying)
ApplyPlaying(ms, newState, t) ==
    IF newState.isPlaying # Undefined /\ newState.isPlaying # Some(ms.isPlaying)
    THEN [ ms EXCEPT !.isPlaying = newState.isPlaying[1],
                     !.lastUpdateTime = t,
                     !.playbackRate = IF newState.isPlaying[1]
                                      THEN @ ELSE MAX_PLAYBACK_RATE ]
    ELSE ms

\* a seek that sets the position but leaves the time marker where it was
ApplySeekKeepMarker(ms, newState, t) ==
    IF newState.seekTime # Undefined
    THEN [ ms EXCEPT !.currentTime = Max(0, newState.seekTime[1]) ]
    ELSE ms

\* if (newState.seekTime !== undefined)
ApplySeek(ms, newState, t) ==
    IF newState.seekTime # Undefined
    THEN [ ms EXCEPT !.currentTime = Max(0, newState.seekTime[1]),
                     !.lastUpdateTime = t ]
    ELSE ms

NewState(playing, video, seek) ==
    [ isPlaying |-> playing, currentVideo |-> video, seekTime |-> seek ]

\* setMasterState(newState) at time t: the new master state, the two
\* interval timers afterwards (startRateAdjustment and
\* startMasterStateBroadcast set them anew, the stop functions clear them),
\* and the stateChanged flag that decides the broadcast
SetMasterState(ms, rat, mbt, newState, t) ==
    LET m1 == RewriteBeforeChange(ms, newState, t)
        m2 == ApplyVideo(m1, newState, t)
        m3 == ApplyPlaying(m2, newState, t)
        m4 == ApplySeek(m3, newState, t)
        videoChanged == m2 # m1
        playChanged == m3 # m2
    IN  [ ms |-> m4,
          rateAdjustTimerId |->
              IF playChanged THEN (IF m3.isPlaying THEN Some(t) ELSE Undefined)
              ELSE IF videoChanged THEN Undefined
              ELSE rat,
          masterBroadcastTimerId |->
              IF playChanged THEN m3.isPlaying
              ELSE IF videoChanged THEN FALSE
              ELSE mbt,
          stateChanged |-> ( m1 # ms \/ videoChanged \/ playChanged
                             \/ newState.seekTime # Undefined ) ]

(* ------------------- StateManager: the rate controller ----------------- *)
HasDrift(ci) == ci.lastDrift # Undefined
ClientsWithData(cc) == { c \in DOMAIN cc : HasDrift(cc[c]) }
ClientsBehind(cc) ==
    { c \in ClientsWithData(cc) : cc[c].lastDrift[1] < CLIENT_BEHIND_THRESHOLD }
ClientsAhead(cc) ==
    { c \in ClientsWithData(cc) :
        /\ ~ (cc[c].lastDrift[1] < CLIENT_BEHIND_THRESHOLD)
        /\ cc[c].lastDrift[1] > DRIFT_THRESHOLD_LOW }

\* a rate rule that steps in the same directions without the limits
AdjustedRateUnclamped(rate, cc) ==
    LET behind == Cardinality(ClientsBehind(cc))
        ahead == Cardinality(ClientsAhead(cc))
        total == Cardinality(ClientsWithData(cc))
    IN  IF 4 * behind > total
        THEN rate - PLAYBACK_RATE_ADJUST_STEP
        ELSE IF 10 * behind < total \/ ahead > behind
        THEN rate + PLAYBACK_RATE_ADJUST_STEP
        ELSE rate

\* the new playbackRate adjustPlaybackRate picks when there is drift data
\* (behindRatio > 0.25 is 4*behind > total; behindRatio < 0.1 is
\* 10*behind < total)
AdjustedRate(rate, cc) ==
    LET behind == Cardinality(ClientsBehind(cc))
        ahead == Cardinality(ClientsAhead(cc))
        total == Cardinality(ClientsWithData(cc))
    IN  IF 4 * behind > total /\ rate > MIN_PLAYBACK_RATE
        THEN Max(MIN_PLAYBACK_RATE, rate - PLAYBACK_RATE_ADJUST_STEP)
        ELSE IF (10 * behind < total \/ ahead > behind) /\ rate < MAX_PLAYBACK_RATE
        THEN Min(MAX_PLAYBACK_RATE, rate + PLAYBACK_RATE_ADJUST_STEP)
        ELSE rate

\* the tail of adjustPlaybackRate when rateChanged: the new playbackRate is
\* already stored in the master state when the time marker is updated
RateChangeMarker(ms, newRate, t) ==
    LET withRate == [ ms EXCEPT !.playbackRate = newRate ]
    IN  [ withRate EXCEPT !.currentTime = GetEffectiveTime(withRate, t),
                          !.lastUpdateTime = t ]

\* a rate controller that slows down only for a majority of clients behind
AdjustPlaybackRateMajority(ms, cc, t) ==
    IF ~ ms.isPlaying \/ DOMAIN cc = {}
    THEN [ ms |-> ms, broadcast |-> FALSE ]
    ELSE LET newRate ==
                 IF 2 * Cardinality(ClientsBehind(cc))
                        > Cardinality(ClientsWithData(cc))
                 THEN AdjustedRate(ms.playbackRate, cc)
                 ELSE ms.playbackRate
         IN  IF newRate # ms.playbackRate
             THEN [ ms |-> RateChangeMarker(ms, newRate, t), broadcast |-> TRUE ]
             ELSE [ ms |-> ms, broadcast |-> FALSE ]

\* adjustPlaybackRate() at time t: the new master state and whether
\* broadcastState is called
AdjustPlaybackRate(ms, cc, t) ==
    IF ~ ms.isPlaying \/ DOMAIN cc = {}
    THEN [ ms |-> ms, broadcast |-> FALSE ]
    ELSE IF ClientsWithData(cc) = {}
    THEN IF ms.playbackRate < MAX_PLAYBACK_RATE
         THEN [ ms |-> [ ms EXCEPT !.playbackRate = MAX_PLAYBACK_RATE,
                                   !.lastUpdateTime = t ],
                broadcast |-> TRUE ]
         ELSE [ ms |-> ms, broadcast |-> FALSE ]
    ELSE LET newRate == AdjustedRate(ms.playbackRate, cc)
         IN  IF newRate # ms.playbackRate
             THEN [ ms |-> RateChangeMarker(ms, newRate, t), broadcast |-> TRUE ]
             ELSE [ ms |-> ms, broadcast |-> FALSE ]

\* an interval rule that steps in the same directions without the limits
AdjustIntervalUnclamped(min, max, step, playing, lastDrift, interval) ==
    IF ~ playing \/ lastDrift = Undefined
    THEN interval
    ELSE LET abs == IF lastDrift[1] < 0 THEN 0 - lastDrift[1] ELSE lastDrift[1]
         IN  IF abs > DRIFT_THRESHOLD_HIGH /\ interval > min
             THEN interval - step
             ELSE IF abs < DRIFT_THRESHOLD_LOW /\ interval < max
             THEN interval + step
             ELSE interval

\* the body of adjustClientSyncInterval with MIN_SYNC_INTERVAL,
\* MAX_SYNC_INTERVAL and SYNC_INTERVAL_ADJUST_STEP as parameters: the new
\* interval of a client whose interval is `interval`
AdjustClientSyncInterval(min, max, step, playing, lastDrift, interval) ==
    IF ~ playing \/ lastDrift = Undefined
    THEN interval
    ELSE LET abs == IF lastDrift[1] < 0 THEN 0 - lastDrift[1] ELSE lastDrift[1]
         IN  IF abs > DRIFT_THRESHOLD_HIGH /\ interval > min
             THEN Max(min, interval - step)
             ELSE IF abs < DRIFT_THRESHOLD_LOW /\ interval < max
             THEN Min(max, interval + step)
             ELSE interval

\* adjustClientSyncInterval(clientId, clientInfo): the client's new interval
AdjustedSyncInterval(ms, ci) ==
    AdjustClientSyncInterval(MIN_SYNC_INTERVAL, MAX_SYNC_INTERVAL,
                             SYNC_INTERVAL_ADJUST_STEP, ms.isPlaying,
                             ci.lastDrift, ci.currentSyncInterval)

(* ------------------- StateManager: the client map ---------------------- *)
\* addClient's defaultClientState overlaid with the clientInfo of the auth
NewClient(role, name, token) ==
    [ role |-> role, name |-> name, token |-> token,
      lastDrift |-> Some(0), lastReportedTime |-> 0,
      isPlaying |-> FALSE, playbackRate |-> 100,
      currentSyncInterval |-> DEFAULT_SYNC_INTERVAL,
      syncTimerId |-> Undefined, missedHeartbeats |-> 0 ]

\* Map.set
MapSet(m, k, v) == [ x \in DOMAIN m \cup {k} |-> IF x = k THEN v ELSE m[x] ]
\* Map.delete
MapDelete(m, k) == [ x \in DOMAIN m \ {k} |-> m[x] ]


(* ----------------------------- AuthManager ----------------------------- *)
\* validatePassword(password): 'admin', 'viewer' or null
ValidatePassword(password) ==
    IF password = ADMIN_PASSWORD THEN Some("admin")
    ELSE IF password = VIEWER_PASSWORD THEN Some("viewer")
    ELSE Undefined

\* the test validateSession and cleanupExpiredSessions apply to a session
IsExpired(session, t) == session.expiry < t

\* validateSession(token) at time t; token 0 is an absent (falsy) token.
\* The session returned (or null) and the session table afterwards.
ValidateSession(sessions, token, t) ==
    IF token = 0 \/ token \notin DOMAIN sessions
    THEN [ session |-> Undefined, sessions |-> sessions ]
    ELSE IF IsExpired(sessions[token], t)
    THEN [ session |-> Undefined,
           sessions |-> [ x \in DOMAIN sessions \ {token} |-> sessions[x] ] ]
    ELSE [ session |-> Some(sessions[token]), sessions |-> sessions ]

\* cleanupExpiredSessions() at time t
CleanupExpiredSessions(sessions, t) ==
    [ x \in { y \in DOMAIN sessions : ~ IsExpired(sessions[y], t) } |-> sessions[x] ]

\* the sessionData createSession(role, name) stores at time t
SessionData(role, name, t) ==
    [ role |-> role, name |-> name, expiry |-> t + SessionExpiry ]

(* ------------------------ strings of the protocol ---------------------- *)
RECURSIVE TrimStart(_)
TrimStart(s) == IF s # << >> /\ Head(s) = " " THEN TrimStart(Tail(s)) ELSE s
RECURSIVE TrimEnd(_)
TrimEnd(s) ==
    IF s # << >> /\ s[Len(s)] = " " THEN TrimEnd(SubSeq(s, 1, Len(s) - 1)) ELSE s
\* String.prototype.trim
Trim(s) == TrimEnd(TrimStart(s))
\* name.substring(0, 30)
Substring30(s) == SubSeq(s, 1, Min(Len(s), NAME_MAX))

\* the name of a password auth: parsedMessage.name && typeof ... === 'string'
\*   ? parsedMessage.name.trim().substring(0, 30) : 'Anonymous'
AuthName(name) ==
    IF name # Undefined /\ name[1] # << >>
    THEN Substring30(Trim(name[1]))
    ELSE Anonymous

\* filename.startsWith('hls:')
StartsWithHls(f) ==
    Len(f) >= 4 /\ SubSeq(f, 1, 4) = << "h", "l", "s", ":" >>

\* dirName.includes('..')
IncludesDotDot(d) ==
    \E i \in 1 .. (Len(d) - 1) : d[i] = "." /\ d[i + 1] = "."

\* isValidVideoFilename(filename); a filename that is not a string is Undefined
IsValidVideoFilename(filename) ==
    IF filename = Undefined \/ filename[1] = << >>
    THEN FALSE
    ELSE IF StartsWithHls(filename[1])
    THEN LET dirName == SubSeq(filename[1], 5, Len(filename[1]))
         IN  /\ dirName # << >>
             /\ \A i \in 1 .. Len(dirName) : dirName[i] \in NameChars
             /\ ~ IncludesDotDot(dirName)
    ELSE FALSE

Digits == { "0", "1", "2", "3", "4", "5", "6", "7", "8", "9" }
DigitValue(ch) ==
    CASE ch = "0" -> 0 [] ch = "1" -> 1 [] ch = "2" -> 2 [] ch = "3" -> 3
      [] ch = "4" -> 4 [] ch = "5" -> 5 [] ch = "6" -> 6 [] ch = "7" -> 7
      [] ch = "8" -> 8 [] ch = "9" -> 9

\* the length of the longest prefix of s made of digits
RECURSIVE DigitPrefixLen(_)
DigitPrefixLen(s) ==
    IF s # << >> /\ Head(s) \in Digits THEN 1 + DigitPrefixLen(Tail(s)) ELSE 0

\* the value of a sequence of digits
RECURSIVE DigitsValue(_)
DigitsValue(s) ==
    IF s = << >> THEN 0
    ELSE 10 * DigitsValue(SubSeq(s, 1, Len(s) - 1)) + DigitValue(s[Len(s)])

\* parseFloat(parsedMessage.time), in hundredths of a second.  The argument is
\* the text of the field (parseFloat converts its argument to a string), or
\* Undefined when the field is missing; the result is NaN (Undefined) unless
\* the text starts with an optionally signed run of digits, and the rest of
\* the text is dropped.
ParseFloat(x) ==
    IF x = Undefined THEN Undefined
    ELSE LET neg == x[1] # << >> /\ Head(x[1]) = "-"
             body == IF neg THEN Tail(x[1]) ELSE x[1]
             n == DigitPrefixLen(body)
             value == 100 * DigitsValue(SubSeq(body, 1, n))
         IN  IF n = 0 THEN Undefined
             ELSE Some(IF neg THEN 0 - value ELSE value)


(* ---------------------- WebSocketServer: sending ----------------------- *)
\* The handlers below are functions of a world W: the record of the
\* variables a handler of the server reads and writes, and the frames it has
\* sent so far to each socket.
World ==
    [ now |-> now,
      masterState |-> masterState,
      rateAdjustTimerId |-> rateAdjustTimerId,
      masterBroadcastTimerId |-> masterBroadcastTimerId,
      connectedClients |-> connectedClients,
      readyState |-> readyState,
      authTimeout |-> authTimeout,
      pendingVideoList |-> pendingVideoList,
      pendingAdminData |-> pendingAdminData,
      activeSessions |-> activeSessions,
      nextToken |-> nextToken,
      minted |-> minted,
      authFailed |-> authFailed,
      syncTimers |-> syncTimers,
      sendThrows |-> sendThrows,
      checksSinceMessage |-> checksSinceMessage,
      out |-> [ c \in Conns |-> << >> ] ]   \* the frames sent, per socket

\* the variables after a handler that ends in world W
Becomes(W) ==
    \E V \in { W } :
        /\ masterState' = V.masterState
        /\ rateAdjustTimerId' = V.rateAdjustTimerId
        /\ masterBroadcastTimerId' = V.masterBroadcastTimerId
        /\ connectedClients' = V.connectedClients
        /\ readyState' = V.readyState
        /\ authTimeout' = V.authTimeout
        /\ pendingVideoList' = V.pendingVideoList
        /\ pendingAdminData' = V.pendingAdminData
        /\ activeSessions' = V.activeSessions
        /\ nextToken' = V.nextToken
        /\ minted' = V.minted
        /\ authFailed' = V.authFailed
        /\ syncTimers' = V.syncTimers
        /\ sendThrows' = V.sendThrows
        /\ checksSinceMessage' = V.checksSinceMessage

IsOpen(W, c) == W.readyState[c] = "open"
OpenSockets(W) == { c \in Conns : IsOpen(W, c) }

ErrorFrame(message) == [ type |-> "error", message |-> message ]
AuthFailFrame(message) == [ type |-> "auth_fail", message |-> message ]

\* { type: 'syncState', ...getMasterState() }
SyncStateFrame(ms, t) ==
    [ type |-> "syncState",
      currentVideo |-> ms.currentVideo,
      currentTime |-> ms.currentTime,
      isPlaying |-> ms.isPlaying,
      lastUpdateTime |-> ms.lastUpdateTime,
      playbackRate |-> ms.playbackRate,
      targetTime |-> GetEffectiveTime(ms, t) ]

\* getAllClientsInfo(): the registered clients whose socket is OPEN
GetAllClientsInfo(W) ==
    [ c \in { x \in DOMAIN W.connectedClients : IsOpen(W, x) } |->
        [ role |-> W.connectedClients[c].role,
          name |-> W.connectedClients[c].name,
          currentTime |-> W.connectedClients[c].lastReportedTime,
          drift |-> W.connectedClients[c].lastDrift,
          isPlaying |-> W.connectedClients[c].isPlaying,
          playbackRate |-> W.connectedClients[c].playbackRate ] ]

ViewerListFrame(W) ==
    [ type |-> "viewerList",
      viewers |-> GetAllClientsInfo(W),
      count |-> Cardinality(DOMAIN GetAllClientsInfo(W)) ]

\* the sequence q without its i-th element
RemoveAt(q, i) == SubSeq(q, 1, i - 1) \o SubSeq(q, i + 1, Len(q))

\* a clearTimeout that cancels nothing
ClearTimeoutNothing(q, handle) == q

\* clearTimeout(handle) on the timeouts q of a socket: the timeout the handle
\* names (by its due time) is cancelled if it is still pending
ClearTimeout(q, handle) ==
    IF handle # Undefined /\ \E i \in 1 .. Len(q) : q[i] = handle[1]
    THEN RemoveAt(q, CHOOSE i \in 1 .. Len(q) : q[i] = handle[1])
    ELSE q

\* a removeClient that deletes the record and leaves its timeout pending
RemoveClientKeepTimer(W, c) ==
    IF c \notin DOMAIN W.connectedClients
    THEN W
    ELSE LET cc == MapDelete(W.connectedClients, c)
             last == DOMAIN cc = {}
         IN  [ W EXCEPT !.connectedClients = cc,
                        !.rateAdjustTimerId = IF last THEN Undefined ELSE @,
                        !.masterBroadcastTimerId = IF last THEN FALSE ELSE @ ]

\* removeClient(clientId): the client's sync timer is cleared, its record
\* deleted, and both loops stopped when the map is empty
RemoveClient(W, c) ==
    IF c \notin DOMAIN W.connectedClients
    THEN W
    ELSE LET cc == MapDelete(W.connectedClients, c)
             last == DOMAIN cc = {}
         IN  [ W EXCEPT !.connectedClients = cc,
                        !.syncTimers[c] =
                            ClearTimeout(@, W.connectedClients[c].syncTimerId),
                        !.rateAdjustTimerId = IF last THEN Undefined ELSE @,
                        !.masterBroadcastTimerId = IF last THEN FALSE ELSE @ ]

\* ws.terminate()
Terminate(W, c) ==
    [ W EXCEPT !.readyState[c] =
          IF @ \in { "open", "goingAway" } THEN "closing" ELSE @ ]

RECURSIVE Send(_, _, _)
RECURSIVE SendEach(_, _, _)
RECURSIVE HandleDisconnect(_, _)

\* a broadcast that gives up at the first socket whose send throws
RECURSIVE SendEachAbort(_, _, _)
SendEachAbort(W, S, frame) ==
    IF S = {}
    THEN W
    ELSE LET c == CHOOSE x \in S : \A y \in S : x <= y
         IN  IF IsOpen(W, c) /\ c \in W.sendThrows
             THEN Send(W, c, frame)
             ELSE SendEachAbort(Send(W, c, frame), S \ {c}, frame)

\* send(ws, data): only an OPEN socket is written to; if ws.send throws, the
\* socket is terminated and handleDisconnect called
Send(W, c, frame) ==
    IF ~ IsOpen(W, c)
    THEN W
    ELSE IF c \in W.sendThrows
    THEN HandleDisconnect(Terminate(W, c), c)
    ELSE [ W EXCEPT !.out[c] = Append(@, frame) ]

\* the same frame sent to the sockets of S one after the other (forEach)
SendEach(W, S, frame) ==
    IF S = {}
    THEN W
    ELSE LET c == CHOOSE x \in S : \A y \in S : x <= y
         IN  SendEach(Send(W, c, frame), S \ {c}, frame)

\* broadcastViewerListToAdmins(excludeWs); exclude 0 excludes nobody
BroadcastViewerListToAdmins(W, exclude) ==
    SendEach(W, { c \in DOMAIN W.connectedClients :
                    W.connectedClients[c].role = "admin" /\ c # exclude },
             ViewerListFrame(W))

\* handleDisconnect(ws, code, reason)
HandleDisconnect(W, c) ==
    IF c \in DOMAIN W.connectedClients
    THEN BroadcastViewerListToAdmins(RemoveClient(W, c), c)
    ELSE W

\* a scheduleNextSync that sets the new timeout whether the master is playing
\* or not
ScheduleAlways(W, c) ==
    IF c \notin DOMAIN W.connectedClients \/ ~ IsOpen(W, c)
    THEN W
    ELSE LET cleared == ClearTimeout(W.syncTimers[c],
                                     W.connectedClients[c].syncTimerId)
             due == W.now + W.connectedClients[c].currentSyncInterval \div 1000
         IN  [ W EXCEPT !.syncTimers[c] = Append(cleared, due),
                        !.connectedClients[c].syncTimerId = Some(due) ]

\* scheduleNextSync(ws, clientInfo): the pending timer is cleared, and a new
\* one, due currentSyncInterval from now, is set only while the master is
\* playing
ScheduleNextSync(W, c) ==
    IF c \notin DOMAIN W.connectedClients \/ ~ IsOpen(W, c)
    THEN W
    ELSE LET cleared == ClearTimeout(W.syncTimers[c],
                                     W.connectedClients[c].syncTimerId)
             due == W.now + W.connectedClients[c].currentSyncInterval \div 1000
         IN  IF W.masterState.isPlaying
             THEN [ W EXCEPT !.syncTimers[c] = Append(cleared, due),
                             !.connectedClients[c].syncTimerId = Some(due) ]
             ELSE [ W EXCEPT !.syncTimers[c] = cleared,
                             !.connectedClients[c].syncTimerId = Undefined ]

\* scheduleNextSync for every socket of S, in the order of wss.clients
RECURSIVE ScheduleAll(_, _)
ScheduleAll(W, S) ==
    IF S = {}
    THEN W
    ELSE LET c == CHOOSE x \in S : \A y \in S : x <= y
         IN  ScheduleAll(ScheduleNextSync(W, c), S \ {c})

\* the sockets broadcast(message) writes to: every OPEN socket of wss.clients
BroadcastTargets(W) == OpenSockets(W)

\* broadcastState(): the frame goes to every broadcast target, then every
\* registered socket that is OPEN is rescheduled
BroadcastState(W) ==
    LET W1 == SendEach(W, BroadcastTargets(W), SyncStateFrame(W.masterState, W.now))
    IN  ScheduleAll(W1, OpenSockets(W1))

\* a sendSyncStateToClient that sends and schedules nothing
SendSyncStateOnce(W, c) ==
    IF c \notin DOMAIN W.connectedClients \/ ~ IsOpen(W, c)
    THEN W
    ELSE Send(W, c, SyncStateFrame(W.masterState, W.now))

\* sendSyncStateToClient(ws, clientInfo): the next sync is scheduled if the
\* send succeeded
SendSyncStateToClient(W, c) ==
    IF c \notin DOMAIN W.connectedClients \/ ~ IsOpen(W, c)
    THEN W
    ELSE LET W1 == Send(W, c, SyncStateFrame(W.masterState, W.now))
         IN  IF c \in W.sendThrows THEN W1 ELSE ScheduleNextSync(W1, c)

\* sendViewerList(adminWs)
SendViewerList(W, c) ==
    IF \/ c \notin DOMAIN W.connectedClients
       \/ W.connectedClients[c].role # "admin"
       \/ ~ IsOpen(W, c)
    THEN W
    ELSE Send(W, c, ViewerListFrame(W))

(* ----------------- StateManager calls, on the world -------------------- *)
\* setMasterState(newState), with the broadcast it ends in
ApplyMasterState(W, newState) ==
    LET r == SetMasterState(W.masterState, W.rateAdjustTimerId,
                            W.masterBroadcastTimerId, newState, W.now)
        W1 == [ W EXCEPT !.masterState = r.ms,
                         !.rateAdjustTimerId = r.rateAdjustTimerId,
                         !.masterBroadcastTimerId = r.masterBroadcastTimerId ]
    IN  IF r.stateChanged THEN BroadcastState(W1) ELSE W1

\* addClient(clientId, clientInfo)
AddClient(W, c, client) ==
    LET cc == MapSet(W.connectedClients, c, client)
        first == Cardinality(DOMAIN cc) = 1 /\ W.masterState.isPlaying
    IN  [ W EXCEPT !.connectedClients = cc,
                   !.rateAdjustTimerId = IF first THEN Some(W.now) ELSE @,
                   !.masterBroadcastTimerId = IF first THEN TRUE ELSE @ ]


(* ------------------ WebSocketServer: handleMessage --------------------- *)
AdminCommands ==
    { "play", "pause", "seek", "changeVideo", "requestVideoList",
      "requestViewerList", "syncAll" }

\* an auth that failed: the auth_fail frame is sent and the handler returns
AuthFail(W, c, message) ==
    [ Send(W, c, AuthFailFrame(message)) EXCEPT !.authFailed = @ \cup {c} ]

\* "Authentication Success": the auth timer is cleared, the client added,
\* auth_success and the initial state sent, the admin data requested (it is
\* sent once getVideoList has answered) and the other admins notified
AuthSuccess(W, c, role, name, token) ==
    LET W1 == [ W EXCEPT !.authTimeout[c] = FALSE ]
        W2 == AddClient(W1, c, NewClient(role, name, token))
        W3 == Send(W2, c, [ type |-> "auth_success", role |-> role,
                            name |-> name, token |-> token ])
        W4 == SendSyncStateToClient(W3, c)
        W5 == IF role = "admin"
              THEN [ W4 EXCEPT !.pendingAdminData[c] = TRUE ]
              ELSE W4
    IN  BroadcastViewerListToAdmins(W5, c)

\* authManager.createSession(role, name): the token minted is W.nextToken
CreateSession(W, role, name) ==
    [ W EXCEPT !.activeSessions = MapSet(@, W.nextToken, SessionData(role, name, W.now)),
               !.minted = MapSet(@, W.nextToken, SessionData(role, name, W.now)),
               !.nextToken = @ + 1 ]

\* an auth branch without the getClient test: every auth frame is tried
HandleAuthAgain(W, c, m) ==
    IF m.token # 0
    THEN LET v == ValidateSession(W.activeSessions, m.token, W.now)
             W1 == [ W EXCEPT !.activeSessions = v.sessions ]
         IN  IF v.session # Undefined
             THEN AuthSuccess(W1, c, v.session[1].role, v.session[1].name, m.token)
             ELSE AuthFail(W1, c, "Invalid or expired session token")
    ELSE IF m.password # ""
    THEN LET role == ValidatePassword(m.password)
         IN  IF role # Undefined
             THEN AuthSuccess(CreateSession(W, role[1], AuthName(m.name)),
                              c, role[1], AuthName(m.name), W.nextToken)
             ELSE AuthFail(W, c, "Invalid password")
    ELSE AuthFail(W, c, "Authentication required")

\* the branch of handleMessage for parsedMessage.type === 'auth'
HandleAuth(W, c, m) ==
    IF c \in DOMAIN W.connectedClients
    THEN Send(W, c, ErrorFrame("Already authenticated"))
    ELSE IF m.token # 0
    THEN LET v == ValidateSession(W.activeSessions, m.token, W.now)
             W1 == [ W EXCEPT !.activeSessions = v.sessions ]
         IN  IF v.session # Undefined
             THEN AuthSuccess(W1, c, v.session[1].role, v.session[1].name, m.token)
             ELSE AuthFail(W1, c, "Invalid or expired session token")
    ELSE IF m.password # ""
    THEN LET role == ValidatePassword(m.password)
         IN  IF role # Undefined
             THEN AuthSuccess(CreateSession(W, role[1], AuthName(m.name)),
                              c, role[1], AuthName(m.name), W.nextToken)
             ELSE AuthFail(W, c, "Invalid password")
    ELSE AuthFail(W, c, "Authentication required")

\* a handler that measures the drift against the stored anchor
HandleClientTimeUpdateAnchor(W, c, m) ==
    IF \/ m.clientTime = Undefined \/ m.clientTime[1] < 0
       \/ m.playbackRate = Undefined \/ m.playbackRate[1] <= 0
       \/ m.isPlaying = Undefined
    THEN W
    ELSE LET client == W.connectedClients[c]
             drift == m.clientTime[1] - W.masterState.currentTime
             updated == [ client EXCEPT
                            !.lastDrift = Some(drift),
                            !.lastReportedTime = m.clientTime[1],
                            !.isPlaying = m.isPlaying[1],
                            !.playbackRate = m.playbackRate[1],
                            !.missedHeartbeats = 0,
                            !.name = IF /\ m.name # Undefined
                                        /\ m.name[1] # << >>
                                        /\ m.name[1] # client.name
                                     THEN Substring30(m.name[1])
                                     ELSE @ ]
             interval == AdjustedSyncInterval(W.masterState, updated)
             W1 == [ W EXCEPT !.connectedClients[c] =
                        [ updated EXCEPT !.currentSyncInterval = interval ] ]
             W2 == IF interval # updated.currentSyncInterval
                   THEN ScheduleNextSync(W1, c)
                   ELSE W1
         IN  BroadcastViewerListToAdmins(W2, 0)

\* handleClientTimeUpdate(ws, clientInfo, message)
HandleClientTimeUpdate(W, c, m) ==
    IF \/ m.clientTime = Undefined \/ m.clientTime[1] < 0
       \/ m.playbackRate = Undefined \/ m.playbackRate[1] <= 0
       \/ m.isPlaying = Undefined
    THEN W
    ELSE LET client == W.connectedClients[c]
             drift == m.clientTime[1] - GetEffectiveTime(W.masterState, W.now)
             updated == [ client EXCEPT
                            !.lastDrift = Some(drift),
                            !.lastReportedTime = m.clientTime[1],
                            !.isPlaying = m.isPlaying[1],
                            !.playbackRate = m.playbackRate[1],
                            !.missedHeartbeats = 0,
                            !.name = IF /\ m.name # Undefined
                                        /\ m.name[1] # << >>
                                        /\ m.name[1] # client.name
                                     THEN Substring30(m.name[1])
                                     ELSE @ ]
             interval == AdjustedSyncInterval(W.masterState, updated)
             W1 == [ W EXCEPT !.connectedClients[c] =
                        [ updated EXCEPT !.currentSyncInterval = interval ] ]
             W2 == IF interval # updated.currentSyncInterval
                   THEN ScheduleNextSync(W1, c)
                   ELSE W1
         IN  BroadcastViewerListToAdmins(W2, 0)

\* the switch of handleMessage, for a registered client that passed the
\* admin-only check
Dispatch(W, c, m) ==
    CASE m.type = "play" ->
            ApplyMasterState(W, NewState(Some(TRUE), Undefined, Undefined))
      [] m.type = "pause" ->
            ApplyMasterState(W, NewState(Some(FALSE), Undefined, Undefined))
      [] m.type = "seek" ->
            LET seekTime == ParseFloat(m.time)
            IN  IF seekTime # Undefined /\ seekTime[1] >= 0
                THEN ApplyMasterState(W, NewState(Undefined, Undefined, seekTime))
                ELSE Send(W, c, ErrorFrame("Invalid seek time"))
      [] m.type = "changeVideo" ->
            IF IsValidVideoFilename(m.video)
            THEN ApplyMasterState(W, NewState(Undefined, m.video, Undefined))
            ELSE Send(W, c, ErrorFrame("Invalid video filename format"))
      [] m.type = "requestVideoList" ->
            [ W EXCEPT !.pendingVideoList[c] = @ + 1 ]
      [] m.type = "requestViewerList" -> SendViewerList(W, c)
      [] m.type = "requestSync" -> SendSyncStateToClient(W, c)
      [] m.type = "syncAll" -> BroadcastState(W)
      [] m.type = "clientTimeUpdate" -> HandleClientTimeUpdate(W, c, m)
      [] OTHER -> Send(W, c, ErrorFrame("Unknown message type"))

\* a check that denies nothing to anybody
NothingDenied(client, m) == FALSE

\* the admin-only check: is the message denied to this client?
PermissionDenied(client, m) ==
    m.type \in AdminCommands /\ client.role # "admin"

\* a variant of the check below that registers the sender as a viewer
NotAuthenticatedAdmits(W, c) ==
    AddClient(W, c, NewClient("viewer", Anonymous, 0))

\* "Check if client is authenticated for non-auth messages": what is done
\* with a frame of a socket that is not in the client map
NotAuthenticatedReply(W, c) ==
    Send(W, c, ErrorFrame("Not authenticated"))

\* handleMessage(ws, message, tempClientInfo, authTimeout)
HandleMessageW(W, c, m) ==
    IF m.type = "invalid"
    THEN Send(W, c, ErrorFrame("Invalid message format"))
    ELSE IF m.type = "auth"
    THEN HandleAuth(W, c, m)
    ELSE IF c \notin DOMAIN W.connectedClients
    THEN NotAuthenticatedReply(W, c)
    ELSE LET W1 == [ W EXCEPT !.connectedClients[c].missedHeartbeats = 0 ]
         IN  IF PermissionDenied(W1.connectedClients[c], m)
             THEN Send(W1, c, ErrorFrame("Permission denied"))
             ELSE Dispatch(W1, c, m)

(* ------------------------------ inputs --------------------------------- *)
NameInputs == { Undefined, Some(<< " ", "b", " " >>) }
PasswordInputs == { "", ADMIN_PASSWORD, VIEWER_PASSWORD, "wrong" }
AuthMessages ==
    [ type : {"auth"}, token : 0 .. MaxTokens, password : PasswordInputs,
      name : NameInputs ]

HlsA == << "h", "l", "s", ":", "a" >>
HlsB == << "h", "l", "s", ":", "b", "_", "0" >>
VideoInputs ==
    { Some(HlsA), Some(HlsB), Some(<< "h", "l", "s", ":", ".", "." >>), Undefined }
SeekInputs ==
    { Some(<< "1", "x" >>), Some(<< "-", "1" >>), Undefined }
ClientTimeInputs == { Some(0), Undefined }

(* ------------------------------ actions -------------------------------- *)
RoleOf(c) ==
    IF c \in DOMAIN connectedClients THEN connectedClients[c].role ELSE "none"

\* the wall clock advances
Tick ==
    /\ now < MaxTime
    /\ now' = now + 1
    /\ UNCHANGED << masterState, rateAdjustTimerId, masterBroadcastTimerId,
                    connectedClients, readyState, authTimeout, pendingVideoList,
                    pendingAdminData, activeSessions, nextToken, minted,
                    authFailed, syncTimers, sendThrows, checksSinceMessage,
                    videoVars, hlsRequest, shutDown >>

\* handleConnection(ws, req): a new socket; a slot is free once the socket
\* that used it is closed and none of its continuations is pending
Connect(c) ==
    /\ c <= NumConns
    /\ ~ shutDown
    /\ readyState[c] = "idle"
    /\ pendingVideoList[c] = 0
    /\ ~ pendingAdminData[c]
    /\ Becomes([ World EXCEPT !.readyState[c] = "open",
                              !.authTimeout[c] = TRUE,
                              !.authFailed = @ \ {c},
                              !.sendThrows = @ \ {c},
                              !.checksSinceMessage[c] = 0 ])
    /\ UNCHANGED << now, hlsRequest, shutDown, videoVars >>

\* a variant of the callback below without the getClient(ws) test
AuthTimeoutFireAlways(W, c) ==
    Terminate(Send([ W EXCEPT !.authTimeout[c] = FALSE ], c,
                   ErrorFrame("Authentication timed out")), c)

\* the auth timer of handleConnection fires
AuthTimeoutFireW(W, c) ==
    LET W1 == [ W EXCEPT !.authTimeout[c] = FALSE ]
    IN  IF c \notin DOMAIN W.connectedClients
        THEN Terminate(Send(W1, c, ErrorFrame("Authentication timed out")), c)
        ELSE W1

AuthTimeoutFire(c) ==
    /\ authTimeout[c]
    /\ Becomes(AuthTimeoutFireW(World, c))
    /\ UNCHANGED << now, hlsRequest, shutDown, videoVars >>

\* ws.on('message'): a frame arrives on an open socket, or on one that
\* ws.close() has put in the closing handshake (the peer's frames are still
\* delivered until its close frame arrives).  createSession is capped: a
\* password auth needs a token left to mint.
HandleMessage(c, m) ==
    /\ readyState[c] \in { "open", "goingAway" }
    /\ ( /\ m.type = "auth"
         /\ c \notin DOMAIN connectedClients
         /\ m.token = 0
         /\ ValidatePassword(m.password) # Undefined ) => nextToken <= MaxTokens
    /\ ( m.type = "requestVideoList" /\ RoleOf(c) = "admin" )
            => pendingVideoList[c] < MaxPending
    /\ LET W == HandleMessageW(World, c, m)
       IN  /\ W.masterState.currentTime <= MaxPosition
           /\ Becomes([ W EXCEPT !.checksSinceMessage[c] = 0 ])
    /\ UNCHANGED << now, hlsRequest, shutDown, videoVars >>

\* ws.on('close'): the socket is gone, closed by the peer or after a
\* terminate()
CloseW(W, c) ==
    HandleDisconnect([ W EXCEPT !.authTimeout[c] = FALSE,
                                !.readyState[c] = "idle",
                                !.sendThrows = @ \ {c},
                                !.checksSinceMessage[c] = 0 ], c)

Close(c) ==
    /\ readyState[c] \in { "open", "goingAway", "closing" }
    /\ Becomes(CloseW(World, c))
    /\ UNCHANGED << now, hlsRequest, shutDown, videoVars >>

\* the connection of socket c breaks in a way that makes ws.send throw
BreakSocket(c) ==
    /\ readyState[c] = "open"
    /\ c \notin sendThrows
    /\ Becomes([ World EXCEPT !.sendThrows = @ \cup {c} ])
    /\ UNCHANGED << now, hlsRequest, shutDown, videoVars >>

\* the body of the forEach of checkHeartbeats(), for client c
CheckHeartbeat(W, c) ==
    IF IsOpen(W, c)
    THEN LET W1 == [ W EXCEPT !.connectedClients[c].missedHeartbeats = @ + 1,
                              !.checksSinceMessage[c] = @ + 1 ]
         IN  IF W1.connectedClients[c].missedHeartbeats > 2
             THEN Terminate(W1, c)
             ELSE W1
    ELSE RemoveClient(W, c)

\* checkHeartbeats(): every client of the map in turn
RECURSIVE CheckHeartbeatsW(_, _)
CheckHeartbeatsW(W, S) ==
    IF S = {}
    THEN W
    ELSE LET c == CHOOSE x \in S : \A y \in S : x <= y
         IN  CheckHeartbeatsW(CheckHeartbeat(W, c), S \ {c})

\* the interval of startHeartbeatChecks fires
CheckHeartbeats ==
    /\ ~ shutDown
    /\ Becomes(CheckHeartbeatsW(World, DOMAIN connectedClients))
    /\ UNCHANGED << now, hlsRequest, shutDown, videoVars >>

\* an interval callback that leaves the rate as it is
RateAdjustTickIdle(W) ==
    [ W EXCEPT !.rateAdjustTimerId = Some(W.now) ]

\* the interval of startRateAdjustment fires: adjustPlaybackRate()
RateAdjustTickW(W) ==
    LET r == AdjustPlaybackRate(W.masterState, W.connectedClients, W.now)
        W1 == [ W EXCEPT !.masterState = r.ms,
                         !.rateAdjustTimerId = Some(W.now) ]
    IN  IF r.broadcast THEN BroadcastState(W1) ELSE W1

RateAdjustTick ==
    /\ rateAdjustTimerId # Undefined
    /\ now >= rateAdjustTimerId[1] + RATE_ADJUSTMENT_INTERVAL
    /\ LET W == RateAdjustTickW(World)
       IN  W.masterState.currentTime <= MaxPosition /\ Becomes(W)
    /\ UNCHANGED << now, hlsRequest, shutDown, videoVars >>

\* the interval of startMasterStateBroadcast fires
MasterBroadcastTickW(W) ==
    IF W.masterState.isPlaying /\ DOMAIN W.connectedClients # {}
    THEN BroadcastState(W)
    ELSE W

MasterBroadcastTick ==
    /\ masterBroadcastTimerId
    /\ Becomes(MasterBroadcastTickW(World))
    /\ UNCHANGED << now, hlsRequest, shutDown, videoVars >>

\* the i-th timeout of scheduleNextSync for socket c fires: the callback
\* fetches the client again and sends it the state if it is still registered
SyncTimerFireW(W, c, i) ==
    SendSyncStateToClient([ W EXCEPT !.syncTimers[c] = RemoveAt(@, i) ], c)

SyncTimerFire(c) ==
    /\ \E i \in 1 .. Len(syncTimers[c]) :
          /\ syncTimers[c][i] <= now
          /\ Becomes(SyncTimerFireW(World, c, i))
    /\ UNCHANGED << now, hlsRequest, shutDown, videoVars >>

(* ------------------------- VideoService: lists ------------------------- *)
\* what refreshVideoList() finds in processed/ (a set stands for the list)
StreamsOnDisk(done) == done

\* getVideoList(): the cached list if it is not empty, else a refreshed one
GetVideoList(cache, done) == IF cache # {} THEN cache ELSE StreamsOnDisk(done)

\* sendVideoList(ws) resumes after await getVideoList()
VideoListReplyW(W, c, list) ==
    Send([ W EXCEPT !.pendingVideoList[c] = @ - 1 ], c,
         [ type |-> "videoList", videos |-> list ])

VideoListReply(c) ==
    /\ pendingVideoList[c] > 0
    /\ Becomes(VideoListReplyW(World, c, GetVideoList(hlsStreams, processed)))
    /\ hlsStreams' = GetVideoList(hlsStreams, processed)
    /\ UNCHANGED << now, hlsRequest, shutDown, encodingQueue, encodes, processed, scans >>

\* sendInitialAdminData(ws) resumes: the video list, then the viewer list
AdminDataReplyW(W, c, list) ==
    SendViewerList(
        Send([ W EXCEPT !.pendingAdminData[c] = FALSE ], c,
             [ type |-> "videoList", videos |-> list ]), c)

AdminDataReply(c) ==
    /\ pendingAdminData[c]
    /\ Becomes(AdminDataReplyW(World, c, GetVideoList(hlsStreams, processed)))
    /\ hlsStreams' = GetVideoList(hlsStreams, processed)
    /\ UNCHANGED << now, hlsRequest, shutDown, encodingQueue, encodes, processed, scans >>

\* WebSocketServer.shutdown(): the heartbeat and master-broadcast intervals
\* are cleared, every socket of wss.clients gets close(1001), the server is
\* closed
ShutdownW(W) ==
    [ W EXCEPT !.masterBroadcastTimerId = FALSE,
               !.readyState = [ c \in Conns |->
                    IF @[c] = "open" THEN "goingAway" ELSE @[c] ] ]

\* the termination signal: every loop is stopped (the rate-adjust, session
\* cleanup and video scan intervals here, the others by shutdown()), the
\* clients are sent close, the listener is closed
Shutdown ==
    /\ ~ shutDown
    /\ shutDown' = TRUE
    /\ Becomes(ShutdownW([ World EXCEPT !.rateAdjustTimerId = Undefined ]))
    /\ UNCHANGED << now, hlsRequest, videoVars >>

(* ------------------------ AuthManager: actions ------------------------- *)
\* the interval of startSessionCleanup fires: cleanupExpiredSessions()
CleanupTick ==
    /\ ~ shutDown
    /\ activeSessions' = CleanupExpiredSessions(activeSessions, now)
    /\ UNCHANGED << now, hlsRequest, shutDown, masterState, rateAdjustTimerId, masterBroadcastTimerId,
                    connectedClients, readyState, authTimeout, pendingVideoList,
                    pendingAdminData, nextToken, minted, authFailed, syncTimers,
                    sendThrows, checksSinceMessage, videoVars >>

\* POST /api/validate-session { token }: handleValidateSessionRequest; what
\* the session table is afterwards (the reply is valid: true iff
\* validateSession returned a session)
ApiValidateSession(token) ==
    /\ activeSessions' = ValidateSession(activeSessions, token, now).sessions
    /\ UNCHANGED << now, hlsRequest, shutDown, masterState, rateAdjustTimerId, masterBroadcastTimerId,
                    connectedClients, readyState, authTimeout, pendingVideoList,
                    pendingAdminData, nextToken, minted, authFailed, syncTimers,
                    sendThrows, checksSinceMessage, videoVars >>

\* invalidateSession(token): a session that exists is deleted from the table
InvalidateSession(token) ==
    /\ token \in DOMAIN activeSessions
    /\ activeSessions' = MapDelete(activeSessions, token)
    /\ UNCHANGED << now, hlsRequest, shutDown, masterState, rateAdjustTimerId, masterBroadcastTimerId,
                    connectedClients, readyState, authTimeout, pendingVideoList,
                    pendingAdminData, nextToken, minted, authFailed, syncTimers,
                    sendThrows, checksSinceMessage, videoVars >>


(* --------------------- VideoService: scan and encode ------------------- *)
\* the entries of the videos directory, in readdir order
DirEntries ==
    << [ base |-> << "a" >>, ext |-> ".mp4", isFile |-> TRUE ],
       [ base |-> << "a", " ", "b" >>, ext |-> ".MKV", isFile |-> TRUE ],
       [ base |-> << "a", "_", "b" >>, ext |-> ".mp4", isFile |-> TRUE ],
       [ base |-> << "n" >>, ext |-> ".txt", isFile |-> TRUE ],
       [ base |-> << "p" >>, ext |-> "", isFile |-> FALSE ] >>

AllowedInputExtensions == { ".mp4", ".mkv", ".mov", ".avi", ".wmv" }

\* path.extname(inputFile).toLowerCase(), for the extensions of DirEntries
ToLowerCase(ext) == IF ext = ".MKV" THEN ".mkv" ELSE ext

\* \w and '-': the characters the sanitizer keeps
WordChars == NameChars \cup { "n", "p" }

\* replace(/[^\w-]+/g, '_'): every run of other characters becomes one '_'
RECURSIVE Sanitize(_)
Sanitize(s) ==
    IF s = << >> THEN << >>
    ELSE IF Head(s) \in WordChars THEN << Head(s) >> \o Sanitize(Tail(s))
    ELSE IF Len(s) > 1 /\ s[2] \notin WordChars THEN Sanitize(Tail(s))
    ELSE << "_" >> \o Sanitize(Tail(s))

\* path.basename(inputFile, inputExt).replace(...)
OutputName(entry) == Sanitize(entry.base)

\* the for loop of scanAndEncodeVideos from its current entry up to the next
\* await: the entries left once those are dropped that are no file, have no
\* allowed extension or are in the encoding queue
RECURSIVE SkipEntries(_, _)
SkipEntries(entries, queue) ==
    IF entries = << >> THEN << >>
    ELSE IF /\ Head(entries).isFile
            /\ ToLowerCase(Head(entries).ext) \in AllowedInputExtensions
            /\ Head(entries) \notin queue
    THEN entries
    ELSE SkipEntries(Tail(entries), queue)

Scans == 1 .. NumScans
IdleScan == [ pc |-> "idle", entries |-> << >>, snapshot |-> {} ]

\* a scan resumed in its loop with these entries left: it awaits fs.access
\* for the first entry that passes the checks, or refreshVideoList
ScanAdvance(entries, queue) ==
    LET rest == SkipEntries(entries, queue)
    IN  IF rest = << >>
        THEN [ pc |-> "refreshRead", entries |-> << >>, snapshot |-> {} ]
        ELSE [ pc |-> "access", entries |-> rest, snapshot |-> {} ]

\* scanAndEncodeVideos() is called (by startVideoScan, at once or by its
\* interval) and awaits mkdir and readdir
ScanStart(s) ==
    /\ ~ shutDown
    /\ scans[s].pc = "idle"
    /\ scans' = [ scans EXCEPT ![s].pc = "readdir" ]
    /\ UNCHANGED << syncVars, hlsRequest, shutDown, encodingQueue, encodes, processed, hlsStreams >>

\* readdir has answered; the loop runs up to its first await
ScanReaddir(s) ==
    /\ scans[s].pc = "readdir"
    /\ scans' = [ scans EXCEPT ![s] = ScanAdvance(DirEntries, encodingQueue) ]
    /\ UNCHANGED << syncVars, hlsRequest, shutDown, encodingQueue, encodes, processed, hlsStreams >>

\* the encodes whose createHLSStream call is running, for one source file
InFlight(tasks, entry) ==
    { i \in DOMAIN tasks : tasks[i].file = entry /\ tasks[i].pc = "encoding" }

\* is the source admitted once fs.access has failed?  The code adds it to the
\* queue and starts the encode without looking at the queue again.
AdmitAfterAccess(queue, entry) == TRUE

\* await fs.access(masterPlaylistPath) has answered for the current entry:
\* the playlist exists, or the source is queued and its encode started; the
\* loop then runs on to its next await
ScanAccessDone(s) ==
    /\ scans[s].pc = "access"
    /\ LET entry == Head(scans[s].entries)
           exists == OutputName(entry) \in processed
           admit == ~ exists /\ AdmitAfterAccess(encodingQueue, entry)
           queue == IF admit THEN encodingQueue \cup {entry} ELSE encodingQueue
       IN  /\ admit => Len(encodes) < MaxEncodes
           /\ encodingQueue' = queue
           /\ encodes' = IF admit
                         THEN Append(encodes, [ file |-> entry, pc |-> "encoding",
                                                snapshot |-> {} ])
                         ELSE encodes
           /\ scans' = [ scans EXCEPT ![s] = ScanAdvance(Tail(scans[s].entries), queue) ]
    /\ UNCHANGED << syncVars, hlsRequest, shutDown, processed, hlsStreams >>

\* refreshVideoList() of a scan has read processed/
ScanRefreshRead(s) ==
    /\ scans[s].pc = "refreshRead"
    /\ scans' = [ scans EXCEPT ![s].pc = "refreshWrite",
                               ![s].snapshot = StreamsOnDisk(processed) ]
    /\ UNCHANGED << syncVars, hlsRequest, shutDown, encodingQueue, encodes, processed, hlsStreams >>

\* refreshVideoList() of a scan stores its list; the scan returns
ScanRefreshWrite(s) ==
    /\ scans[s].pc = "refreshWrite"
    /\ hlsStreams' = scans[s].snapshot
    /\ scans' = [ scans EXCEPT ![s] = IdleScan ]
    /\ UNCHANGED << syncVars, hlsRequest, shutDown, encodingQueue, encodes, processed >>

\* createHLSStream resolves: master.m3u8 exists; _encodeVideo goes on to
\* refreshVideoList
EncodeSucceed(i) ==
    /\ i \in DOMAIN encodes
    /\ encodes[i].pc = "encoding"
    /\ processed' = processed \cup { OutputName(encodes[i].file) }
    /\ encodes' = [ encodes EXCEPT ![i].pc = "refreshRead" ]
    /\ UNCHANGED << syncVars, hlsRequest, shutDown, encodingQueue, hlsStreams, scans >>

\* a failure path of createHLSStream that leaves the output directory alone
CleanupNothing(done, entry) == done

\* the catch of createHLSStream: the stream's output directory is removed,
\* and with it any master.m3u8 in it
CleanupFailed(done, entry) == done \ { OutputName(entry) }

\* createHLSStream rejects after its cleanup: catch, then finally
EncodeFail(i) ==
    /\ i \in DOMAIN encodes
    /\ encodes[i].pc = "encoding"
    /\ processed' = CleanupFailed(processed, encodes[i].file)
    /\ encodingQueue' = encodingQueue \ { encodes[i].file }
    /\ encodes' = [ encodes EXCEPT ![i].pc = "done" ]
    /\ UNCHANGED << syncVars, hlsRequest, shutDown, hlsStreams, scans >>

\* refreshVideoList() of _encodeVideo has read processed/
EncodeRefreshRead(i) ==
    /\ i \in DOMAIN encodes
    /\ encodes[i].pc = "refreshRead"
    /\ encodes' = [ encodes EXCEPT ![i].pc = "refreshWrite",
                                   ![i].snapshot = StreamsOnDisk(processed) ]
    /\ UNCHANGED << syncVars, hlsRequest, shutDown, encodingQueue, processed, hlsStreams, scans >>

\* refreshVideoList() of _encodeVideo stores its list; finally
EncodeRefreshWrite(i) ==
    /\ i \in DOMAIN encodes
    /\ encodes[i].pc = "refreshWrite"
    /\ hlsStreams' = encodes[i].snapshot
    /\ encodingQueue' = encodingQueue \ { encodes[i].file }
    /\ encodes' = [ encodes EXCEPT ![i].pc = "done", ![i].snapshot = {} ]
    /\ UNCHANGED << syncVars, hlsRequest, shutDown, processed, scans >>

(* -------------------- VideoService: serving HLS ------------------------ *)
\* Paths and request parameters are sequences of characters.

\* streamNameWithSubPath.split('/').filter(p => p)
RECURSIVE SplitParts(_)
SplitParts(s) ==
    IF s = << >>
    THEN << >>
    ELSE LET slashes == { i \in 1 .. Len(s) : s[i] = "/" }
             cut == IF slashes = {} THEN Len(s) + 1
                    ELSE CHOOSE i \in slashes : \A j \in slashes : i <= j
             rest == SplitParts(SubSeq(s, cut + 1, Len(s)))
         IN  IF cut = 1 THEN rest ELSE << SubSeq(s, 1, cut - 1) >> \o rest

\* the test of a part without the '..' test
IsValidPartChars(part) ==
    \A i \in 1 .. Len(part) : part[i] \in NameChars \cup { "." }

\* /^[a-zA-Z0-9_.-]+$/.test(part) and not part.includes('..'), for a part
\* that is not empty
IsValidPart(part) ==
    /\ \A i \in 1 .. Len(part) : part[i] \in NameChars \cup { "." }
    /\ ~ IncludesDotDot(part)

\* path.normalize(path.join(dir, ...parts)) for an absolute dir: among the
\* components '.' is dropped and '..' removes the component before it (none
\* at the root); the result is the text of the path
NormalizedPath(dir, parts) ==
    LET RECURSIVE Normalize(_, _)
        Normalize(done, todo) ==
            IF todo = << >> THEN done
            ELSE IF Head(todo) = << "." >> THEN Normalize(done, Tail(todo))
            ELSE IF Head(todo) = << ".", "." >>
            THEN Normalize(SubSeq(done, 1, Len(done) - 1), Tail(todo))
            ELSE Normalize(Append(done, Head(todo)), Tail(todo))
        RECURSIVE Text(_)
        Text(comps) ==
            IF comps = << >> THEN << >>
            ELSE << "/" >> \o Head(comps) \o Text(Tail(comps))
        comps == Normalize(SplitParts(dir), parts)
    IN  IF comps = << >> THEN << "/" >> ELSE Text(comps)

\* this.processedDir = <videoDir>/processed, here /v/p
ProcessedDir == << "/", "v", "/", "p" >>

\* the regular files of the machine: /v/p/a/a and /v/p/a.a below processed/,
\* /v/a beside it in the video directory, /v/pa/a in a directory whose name
\* starts like processed/, and /a at the root
FilesOnDisk ==
    { << "/", "v", "/", "p", "/", "a", "/", "a" >>,
      << "/", "v", "/", "p", "/", "a", ".", "a" >>,
      << "/", "v", "/", "a" >>,
      << "/", "v", "/", "p", "a", "/", "a" >>,
      << "/", "a" >> }

\* handleHlsRequest from the security check on, for the normalized path: 403
\* unless it startsWith the processed directory, 404 unless statSync finds a
\* regular file, else 200 and the file is streamed
ServeNormalizedPath(normalizedPath) ==
    IF ~ ( /\ Len(normalizedPath) >= Len(ProcessedDir)
           /\ SubSeq(normalizedPath, 1, Len(ProcessedDir)) = ProcessedDir )
    THEN [ status |-> 403, file |-> Undefined ]
    ELSE IF normalizedPath \notin FilesOnDisk
    THEN [ status |-> 404, file |-> Undefined ]
    ELSE [ status |-> 200, file |-> Some(normalizedPath) ]

\* handleHlsRequest(req, res) with req.params.streamName and req.params[0]
\* (Undefined when the route matched no subpath)
HlsResponse(streamName, subPath) ==
    LET streamNameWithSubPath ==
            IF subPath # Undefined /\ subPath[1] # << >>
            THEN streamName \o << "/" >> \o subPath[1]
            ELSE streamName
        parts == SplitParts(streamNameWithSubPath)
    IN  IF parts = << >> \/ \E i \in 1 .. Len(parts) : ~ IsValidPart(parts[i])
        THEN [ status |-> 400, file |-> Undefined ]
        ELSE ServeNormalizedPath(NormalizedPath(ProcessedDir, parts))

\* a GET /video/:streamName/* request arrives; one request is followed
HlsRequestArrives(streamName, subPath) ==
    /\ hlsRequest = Undefined
    /\ hlsRequest' = Some([ streamName |-> streamName, subPath |-> subPath,
                            res |-> Undefined ])
    /\ UNCHANGED << syncVars, videoVars, shutDown >>

\* handleHlsRequest answers it
HandleHlsRequest ==
    /\ hlsRequest # Undefined
    /\ hlsRequest[1].res = Undefined
    /\ hlsRequest' =
          Some([ hlsRequest[1] EXCEPT
                    !.res = Some(HlsResponse(hlsRequest[1].streamName,
                                             hlsRequest[1].subPath)) ])
    /\ UNCHANGED << syncVars, videoVars, shutDown >>

(* ------------------------------ inputs --------------------------------- *)
\* the auth frames of the synchronisation runs: a session token alone; the
\* peer of socket c presents token c (the operator is peer 1, the viewer 2)
TokenAuths(c) ==
    [ type : {"auth"}, token : {c}, password : {""}, name : { Undefined } ]

ControlMessages ==
    { [ type |-> t ] : t \in { "invalid", "play", "pause", "requestVideoList",
                              "requestViewerList", "requestSync", "syncAll",
                              "bogus" } }
    \cup [ type : {"seek"}, time : SeekInputs ]
    \cup [ type : {"changeVideo"}, video : VideoInputs ]
    \cup [ type : {"clientTimeUpdate"}, clientTime : ClientTimeInputs,
           playbackRate : { Some(100) }, isPlaying : { Some(TRUE) },
           name : { Undefined } ]

(* ------------------------- the specifications -------------------------- *)
Init ==
    /\ now = 0
    /\ masterState = InitialMasterState(0)
    /\ rateAdjustTimerId = Some(0)
    /\ masterBroadcastTimerId = FALSE
    /\ connectedClients = << >>
    /\ readyState = [ c \in Conns |-> "idle" ]
    /\ authTimeout = [ c \in Conns |-> FALSE ]
    /\ pendingVideoList = [ c \in Conns |-> 0 ]
    /\ pendingAdminData = [ c \in Conns |-> FALSE ]
    /\ activeSessions = << >>
    /\ nextToken = 1
    /\ minted = << >>
    /\ authFailed = {}
    /\ syncTimers = [ c \in Conns |-> << >> ]
    /\ sendThrows = {}
    /\ checksSinceMessage = [ c \in Conns |-> 0 ]
    /\ encodingQueue = {}
    /\ encodes = << >>
    /\ processed = {}
    /\ hlsStreams = {}
    /\ scans = [ s \in Scans |-> IdleScan ]
    /\ hlsRequest = Undefined
    /\ shutDown = FALSE

\* The synchronisation engine.  Its runs start on a server where an operator
\* and a viewer have logged in with their passwords at time 0 and have closed
\* their sockets again, so that their two sessions exist (a state SpecAuth
\* reaches); they come back with their tokens.
LoggedInBefore ==
    << SessionData("admin", Anonymous, 0), SessionData("viewer", Anonymous, 0) >>

InitSync ==
    /\ now = 0
    /\ masterState = InitialMasterState(0)
    /\ rateAdjustTimerId = Some(0)
    /\ masterBroadcastTimerId = FALSE
    /\ connectedClients = << >>
    /\ readyState = [ c \in Conns |-> "idle" ]
    /\ authTimeout = [ c \in Conns |-> FALSE ]
    /\ pendingVideoList = [ c \in Conns |-> 0 ]
    /\ pendingAdminData = [ c \in Conns |-> FALSE ]
    /\ activeSessions = LoggedInBefore
    /\ nextToken = Len(LoggedInBefore) + 1
    /\ minted = LoggedInBefore
    /\ authFailed = {}
    /\ syncTimers = [ c \in Conns |-> << >> ]
    /\ sendThrows = {}
    /\ checksSinceMessage = [ c \in Conns |-> 0 ]
    /\ encodingQueue = {}
    /\ encodes = << >>
    /\ processed = {}
    /\ hlsStreams = {}
    /\ scans = [ s \in Scans |-> IdleScan ]
    /\ hlsRequest = Undefined
    /\ shutDown = FALSE

\* the sync engine: the operator's commands and the clients' time reports
\* (with one malformed frame; the frames that are only answered, and the
\* requests for a snapshot, are inputs of the other specifications)
SyncMessages ==
    { [ type |-> t ] : t \in { "invalid", "play", "pause" } }
    \cup [ type : {"seek"}, time : { Some(<< "1", "x" >>) } ]
    \cup [ type : {"changeVideo"}, video : { Some(HlsA), Some(HlsB) } ]
    \cup [ type : {"clientTimeUpdate"}, clientTime : { Some(0) },
           playbackRate : { Some(100) }, isPlaying : { Some(TRUE) },
           name : { Undefined } ]

Next ==
    \/ Tick
    \/ \E c \in Conns : Connect(c)
    \/ \E c \in Conns : \E m \in TokenAuths(c) \cup SyncMessages :
            HandleMessage(c, m)
    \/ \E c \in Conns : Close(c)
    \/ RateAdjustTick
    \/ MasterBroadcastTick
    \/ \E c \in Conns : SyncTimerFire(c)
    \/ \E c \in Conns : AdminDataReply(c)

Spec == InitSync /\ [][Next]_vars

\* the session gate: every auth frame, the session sweep and the HTTP check
NextAuth ==
    \/ Tick
    \/ \E c \in Conns : Connect(c)
    \/ \E c \in Conns, m \in AuthMessages : HandleMessage(c, m)
    \/ \E c \in Conns : Close(c)
    \/ \E c \in Conns : AuthTimeoutFire(c)
    \/ \E c \in Conns : AdminDataReply(c)
    \/ CleanupTick
    \/ \E token \in Tokens : ApiValidateSession(token)

SpecAuth == Init /\ [][NextAuth]_vars

\* the timers: sync timers, heartbeat checks and sends that throw, with the
\* frames that start, stop and request snapshots
TimerMessages ==
    { [ type |-> t ] : t \in { "play", "pause", "requestSync" } }

NextTimers ==
    \/ Tick
    \/ \E c \in Conns : Connect(c)
    \/ \E c \in Conns : \E m \in TokenAuths(c) \cup TimerMessages :
            /\ m.type = "auth" => c \notin DOMAIN connectedClients
            /\ HandleMessage(c, m)
    \/ \E c \in Conns : Close(c)
    \/ \E c \in Conns : sendThrows = {} /\ BreakSocket(c)
    \/ CheckHeartbeats
    \/ MasterBroadcastTick
    \/ \E c \in Conns : SyncTimerFire(c)
    \/ \E c \in Conns : AdminDataReply(c)

SpecTimers == InitSync /\ [][NextTimers]_vars

\* the same, with the event loop running the callback of every timeout
\* that is due
SpecTimersFair ==
    SpecTimers /\ \A c \in Conns : WF_vars(SyncTimerFire(c))

\* the liveness check of the clients: every frame a client can send, between
\* the heartbeat checks
NextHeartbeat ==
    \/ \E c \in Conns : Connect(c)
    \/ \E c \in Conns : \E m \in TokenAuths(c) \cup ControlMessages :
            HandleMessage(c, m)
    \/ \E c \in Conns : Close(c)
    \/ CheckHeartbeats
    \/ \E c \in Conns : VideoListReply(c)
    \/ \E c \in Conns : AdminDataReply(c)

SpecHeartbeat == InitSync /\ [][NextHeartbeat]_vars

\* the ways a client's stay ends: the socket closes, the heartbeat check
\* terminates it, its session is invalidated, the server is shut down
NextShutdown ==
    \/ Tick
    \/ \E c \in Conns : Connect(c)
    \/ \E c \in Conns : \E m \in TokenAuths(c) \cup { [ type |-> "play" ],
                                                     [ type |-> "pause" ] } :
          /\ m.type = "auth" => c \notin DOMAIN connectedClients
          /\ HandleMessage(c, m)
    \/ \E c \in Conns : Close(c)
    \/ Shutdown
    \/ \E token \in Tokens : InvalidateSession(token)
    \/ CheckHeartbeats
    \/ RateAdjustTick
    \/ MasterBroadcastTick
    \/ \E c \in Conns : SyncTimerFire(c)
    \/ \E c \in Conns : AdminDataReply(c)

SpecShutdown == InitSync /\ [][NextShutdown]_vars

\* the rate controller at work: the master has been playing for a while, at
\* the lowest rate, two steps below the normal rate or at the normal rate; some
\* of the sockets are open and registered (socket 1 as the operator), each
\* with the drift of its last report (behind, level or ahead) and its sync
\* timer pending
InitRate ==
    /\ now = 0
    /\ \E r \in { MIN_PLAYBACK_RATE,
                   MAX_PLAYBACK_RATE - 2 * PLAYBACK_RATE_ADJUST_STEP,
                   MAX_PLAYBACK_RATE } :
          masterState = [ InitialMasterState(0) EXCEPT !.currentVideo = Some(HlsA),
                                                       !.isPlaying = TRUE,
                                                       !.playbackRate = r ]
    /\ rateAdjustTimerId = Some(0)
    /\ masterBroadcastTimerId = TRUE
    /\ \E regd \in SUBSET Conns :
       \E drifts \in [ regd -> { CLIENT_BEHIND_THRESHOLD - 100, 0,
                                 DRIFT_THRESHOLD_LOW + 50 } ] :
          /\ connectedClients =
                [ c \in regd |->
                    [ NewClient(IF c = 1 THEN "admin" ELSE "viewer", Anonymous,
                                IF c = 1 THEN 1 ELSE 2)
                      EXCEPT !.lastDrift = Some(drifts[c]),
                             !.syncTimerId =
                                 Some(DEFAULT_SYNC_INTERVAL \div 1000) ] ]
          /\ readyState = [ c \in Conns |->
                              IF c \in regd THEN "open" ELSE "idle" ]
          /\ syncTimers = [ c \in Conns |->
                              IF c \in regd
                              THEN << DEFAULT_SYNC_INTERVAL \div 1000 >>
                              ELSE << >> ]
    /\ authTimeout = [ c \in Conns |-> FALSE ]
    /\ pendingVideoList = [ c \in Conns |-> 0 ]
    /\ pendingAdminData = [ c \in Conns |-> FALSE ]
    /\ activeSessions = LoggedInBefore
    /\ nextToken = Len(LoggedInBefore) + 1
    /\ minted = LoggedInBefore
    /\ authFailed = {}
    /\ sendThrows = {}
    /\ checksSinceMessage = [ c \in Conns |-> 0 ]
    /\ encodingQueue = {}
    /\ encodes = << >>
    /\ processed = {}
    /\ hlsStreams = {}
    /\ scans = [ s \in Scans |-> IdleScan ]
    /\ hlsRequest = Undefined
    /\ shutDown = FALSE

\* the clock, the rate controller's interval, and the clients' time reports
NextRate ==
    \/ Tick
    \/ RateAdjustTick
    \/ \E c \in Conns, t \in { 0, MaxPosition } :
          HandleMessage(c, [ type |-> "clientTimeUpdate", clientTime |-> Some(t),
                             playbackRate |-> Some(100), isPlaying |-> Some(TRUE),
                             name |-> Undefined ])

SpecRate == InitRate /\ [][NextRate]_vars

\* RateAdjustTick as it shows on the interval and the master state: the same
\* guard and the same new values, without the frames of the broadcast; the
\* steps of NextRate that satisfy it are the steps of RateAdjustTick
RateIntervalFires ==
    /\ rateAdjustTimerId # Undefined
    /\ now >= rateAdjustTimerId[1] + RATE_ADJUSTMENT_INTERVAL
    /\ \E r \in { AdjustPlaybackRate(masterState, connectedClients, now) } :
          /\ r.ms.currentTime <= MaxPosition
          /\ masterState' = r.ms
    /\ rateAdjustTimerId' = Some(now)

\* the same, with the clock advancing and the event loop running the
\* callback of the rate interval whenever it is due
SpecRateFair ==
    /\ SpecRate
    /\ WF_vars(Tick)
    /\ WF_<< rateAdjustTimerId, masterState >>(RateIntervalFires)

\* the video catalog: overlapping scans and their encodes
NextVideo ==
    \/ \E s \in Scans : ScanStart(s)
    \/ \E s \in Scans : ScanReaddir(s)
    \/ \E s \in Scans : ScanAccessDone(s)
    \/ \E s \in Scans : ScanRefreshRead(s)
    \/ \E s \in Scans : ScanRefreshWrite(s)
    \/ \E i \in 1 .. MaxEncodes : EncodeSucceed(i)
    \/ \E i \in 1 .. MaxEncodes : EncodeFail(i)
    \/ \E i \in 1 .. MaxEncodes : EncodeRefreshRead(i)
    \/ \E i \in 1 .. MaxEncodes : EncodeRefreshWrite(i)

SpecVideo == Init /\ [][NextVideo]_vars

\* the HLS file handler: a request with any stream name and subpath of at
\* most MaxPathLen characters
NextServe ==
    LET RECURSIVE Texts(_)
        Texts(n) ==
            IF n = 0 THEN { << >> }
            ELSE Texts(n - 1) \cup
                    { Append(t, ch) :
                        t \in { u \in Texts(n - 1) : Len(u) = n - 1 },
                        ch \in { "a", ".", "/", "\\" } }
    IN  \/ \E streamName \in Texts(MaxPathLen) \ { << >> } :
              \E subPath \in { Undefined } \cup
                             { Some(t) : t \in Texts(MaxPathLen) } :
                  HlsRequestArrives(streamName, subPath)
        \/ HandleHlsRequest

SpecServe == Init /\ [][NextServe]_vars


(* ------------------------------ properties ----------------------------- *)
\* getEffectiveTime() in the current state and in the next one
EffectiveTime == GetEffectiveTime(masterState, now)
EffectiveTimeNext == GetEffectiveTime(masterState', now')

\* socket c is open and registered with the operator (admin) role
IsOperator(c) ==
    /\ readyState[c] = "open"
    /\ c \in DOMAIN connectedClients
    /\ connectedClients[c].role = "admin"
\* socket c is open and registered with the viewer role
IsViewer(c) ==
    /\ readyState[c] = "open"
    /\ c \in DOMAIN connectedClients
    /\ connectedClients[c].role = "viewer"

\* the world after handleMessage has handled frame m of socket c
After(c, m) == HandleMessageW(World, c, m)

\* frame is among the frames the handler that ended in world W sent to d
Received(W, d, frame) == \E i \in 1 .. Len(W.out[d]) : W.out[d][i] = frame

PlayMsg == [ type |-> "play" ]
PauseMsg == [ type |-> "pause" ]
SeekMsg(text) == [ type |-> "seek", time |-> Some(text) ]
ChangeVideoMsg(v) == [ type |-> "changeVideo", video |-> Some(v) ]
ValidVideos == { HlsA, HlsB }
SeekMessages == [ type : {"seek"}, time : SeekInputs ]
ChangeVideoMessages == [ type : {"changeVideo"}, video : VideoInputs ]

\* C1: whenever adjustPlaybackRate changes the master rate, the effective
\* time right after the change equals the effective time right before it.
C1_RateChangeContinuity ==
    [][ ( RateAdjustTick /\ masterState'.playbackRate # masterState.playbackRate )
            => EffectiveTimeNext = EffectiveTime ]_vars

\* the rate controller is about to change the rate some time after the anchor
C1_Witness ==
    /\ rateAdjustTimerId # Undefined
    /\ now >= rateAdjustTimerId[1] + RATE_ADJUSTMENT_INTERVAL
    /\ now > masterState.lastUpdateTime
    /\ AdjustPlaybackRate(masterState, connectedClients, now).ms.playbackRate
            # masterState.playbackRate

\* C2: a pause received while playing and a play received while paused flip
\* isPlaying and keep the effective time; and while the master stays paused
\* the effective time changes only by an operator's seek or changeVideo.
C2_PlayPauseContinuity ==
    /\ [] \A c \in Conns :
            IsOperator(c) =>
                LET after == After(c, IF masterState.isPlaying
                                      THEN PauseMsg ELSE PlayMsg).masterState
                IN  /\ after.isPlaying = ~ masterState.isPlaying
                    /\ GetEffectiveTime(after, now) = EffectiveTime
    /\ [][ ( ~ masterState.isPlaying /\ ~ masterState'.isPlaying
             /\ EffectiveTimeNext # EffectiveTime )
                => \E c \in Conns :
                     /\ IsOperator(c)
                     /\ \E m \in SeekMessages \cup ChangeVideoMessages :
                            HandleMessage(c, m)
         ]_vars

\* the master has played for a while at a reduced rate and an operator's
\* pause now freezes it at the effective time
C2_Witness ==
    \E c \in Conns :
        /\ IsOperator(c)
        /\ masterState.isPlaying
        /\ masterState.playbackRate < MAX_PLAYBACK_RATE
        /\ EffectiveTime > masterState.currentTime
        /\ ~ After(c, PauseMsg).masterState.isPlaying
        /\ After(c, PauseMsg).masterState.currentTime = EffectiveTime

\* the master state changeVideo(v) is specified to leave behind
VideoLoaded(ms, v) ==
    /\ ms.currentVideo = Some(v)
    /\ ms.currentTime = 0
    /\ ~ ms.isPlaying
    /\ ms.playbackRate = MAX_PLAYBACK_RATE

\* the handler that ended in world W sent every open socket a syncState
\* carrying the master state W ends in
SyncStateSentToAll(W) ==
    \A d \in OpenSockets(W) : Received(W, d, SyncStateFrame(W.masterState, W.now))

\* the handler that ended in world W sent nothing to anybody
NothingSent(W) == \A d \in Conns : W.out[d] = << >>

\* C3 (as stated): after an operator's changeVideo(v) with a valid v, whatever
\* the current video is, the master state is v at position 0, paused, at
\* rate 1.0, and a syncState carrying these values went to every open socket.
C3_ChangeVideoAnyPrior ==
    \A c \in Conns, v \in ValidVideos :
        IsOperator(c) =>
            /\ VideoLoaded(After(c, ChangeVideoMsg(v)).masterState, v)
            /\ SyncStateSentToAll(After(c, ChangeVideoMsg(v)))

\* C3 (amended): the same for every valid v that differs from the current
\* video; a changeVideo naming the current video changes nothing and sends
\* nothing.
C3_ChangeVideoEffect ==
    \A c \in Conns, v \in ValidVideos :
        IsOperator(c) =>
            IF masterState.currentVideo # Some(v)
            THEN /\ VideoLoaded(After(c, ChangeVideoMsg(v)).masterState, v)
                 /\ SyncStateSentToAll(After(c, ChangeVideoMsg(v)))
            ELSE /\ After(c, ChangeVideoMsg(v)).masterState = masterState
                 /\ NothingSent(After(c, ChangeVideoMsg(v)))

\* an operator changes from one video, playing at a reduced rate, to another
\* one while a second socket is open
C3_Witness ==
    \E c \in Conns :
        /\ IsOperator(c)
        /\ masterState.currentVideo = Some(HlsA)
        /\ masterState.isPlaying
        /\ masterState.playbackRate < MAX_PLAYBACK_RATE
        /\ \E d \in Conns \ {c} : readyState[d] = "open"
        /\ VideoLoaded(After(c, ChangeVideoMsg(HlsB)).masterState, HlsB)

\* C4: a play message received while the master is already playing leaves
\* the master state unchanged, so the effective time does not jump.
C4_PlayWhilePlaying ==
    \A c \in Conns :
        ( IsOperator(c) /\ masterState.isPlaying ) =>
            /\ After(c, PlayMsg).masterState = masterState
            /\ GetEffectiveTime(After(c, PlayMsg).masterState, now) = EffectiveTime

\* an operator sends play while the master has been playing for a while
C4_Witness ==
    \E c \in Conns :
        /\ IsOperator(c)
        /\ masterState.isPlaying
        /\ now > masterState.lastUpdateTime
        /\ After(c, PlayMsg).masterState.isPlaying

\* C5: after an operator's seek(t) with t >= 0, playing or paused, the
\* effective time is t, isPlaying, rate and currentVideo are unchanged, and
\* every open socket was sent a syncState, each with targetTime t.
C5_SeekEffect ==
    \A c \in Conns, m \in SeekMessages :
        ( IsOperator(c) /\ ParseFloat(m.time) # Undefined
          /\ ParseFloat(m.time)[1] >= 0 ) =>
            LET W == After(c, m)
                t == ParseFloat(m.time)[1]
            IN  /\ GetEffectiveTime(W.masterState, now) = t
                /\ W.masterState.isPlaying = masterState.isPlaying
                /\ W.masterState.playbackRate = masterState.playbackRate
                /\ W.masterState.currentVideo = masterState.currentVideo
                /\ SyncStateSentToAll(W)
                /\ \A d \in Conns : \A i \in 1 .. Len(W.out[d]) :
                      /\ W.out[d][i].type = "syncState"
                      /\ W.out[d][i].targetTime = t

\* an operator seeks while the master plays at a reduced rate, away from the
\* seek target, and a second socket is open
C5_Witness ==
    \E c \in Conns :
        /\ IsOperator(c)
        /\ masterState.isPlaying
        /\ masterState.playbackRate < MAX_PLAYBACK_RATE
        /\ EffectiveTime # 100
        /\ \E d \in Conns \ {c} : readyState[d] = "open"
        /\ GetEffectiveTime(After(c, SeekMsg(<< "1", "x" >>)).masterState, now) = 100


\* the source files of the videos directory
SourceFiles == { DirEntries[i] : i \in DOMAIN DirEntries }

\* C6: at any time at most one encode is in flight per source file, under
\* every interleaving of overlapping scans; and a scan that resumes while an
\* encode of a source is in flight starts nothing for that source.
C6_AtMostOneEncode ==
    /\ [] \A entry \in SourceFiles : Cardinality(InFlight(encodes, entry)) <= 1
    /\ [][ \A entry \in SourceFiles :
             InFlight(encodes, entry) # {}
                => InFlight(encodes', entry) \subseteq InFlight(encodes, entry)
         ]_vars

\* two scans wait for fs.access on the same source, none of it encoding yet
C6_Witness ==
    \E s1, s2 \in Scans :
        /\ s1 # s2
        /\ scans[s1].pc = "access" /\ scans[s2].pc = "access"
        /\ Head(scans[s1].entries) = Head(scans[s2].entries)
        /\ InFlight(encodes, Head(scans[s1].entries)) = {}

\* C7: a socket on which an auth attempt has failed is never registered as a
\* client afterwards.
C7_AuthFailTeardown ==
    \A c \in authFailed : c \notin DOMAIN connectedClients

\* an auth attempt has failed on a socket, which is still open
C7_Witness ==
    \E c \in authFailed : readyState[c] = "open" /\ c \notin DOMAIN connectedClients

\* C8: validateSession(token) returns the session iff the token was minted by
\* createSession and expiresAt > now (no session is ever invalidated), and
\* the sweep never removes an unexpired session.
C8_TokenValidity ==
    /\ [] \A token \in Tokens :
            LET session == ValidateSession(activeSessions, token, now).session
            IN  IF token \in DOMAIN minted /\ minted[token].expiry > now
                THEN session = Some(minted[token])
                ELSE session = Undefined
    /\ [][ CleanupTick =>
             \A token \in DOMAIN activeSessions :
                activeSessions[token].expiry > now
                    => token \in DOMAIN activeSessions' ]_vars

\* a minted token is presented exactly when it expires
C8_Witness ==
    \E token \in DOMAIN activeSessions : activeSessions[token].expiry = now

\* an auth frame that presents only token T
TokenOnly(T) == [ type |-> "auth", token |-> T, password |-> "", name |-> Undefined ]

\* C9: an auth frame presenting only a token T that a password auth has
\* produced with role R and name n succeeds with R and n on any socket as long
\* as T has not expired, and is answered with auth_fail once the TTL has
\* elapsed.
C9_SessionReuse ==
    \A c \in Conns, T \in DOMAIN minted :
        ( readyState[c] = "open" /\ c \notin DOMAIN connectedClients ) =>
            LET W == After(c, TokenOnly(T))
            IN  IF minted[T].expiry > now
                THEN /\ c \in DOMAIN W.connectedClients
                     /\ W.connectedClients[c].role = minted[T].role
                     /\ W.connectedClients[c].name = minted[T].name
                     /\ Received(W, c, [ type |-> "auth_success",
                                         role |-> minted[T].role,
                                         name |-> minted[T].name, token |-> T ])
                ELSE /\ c \notin DOMAIN W.connectedClients
                     /\ Received(W, c, AuthFailFrame("Invalid or expired session token"))

\* a token minted on a socket that has closed since is presented on another
\* socket when its TTL has just elapsed
C9_Witness ==
    \E c \in Conns, T \in DOMAIN activeSessions :
        /\ readyState[c] = "open" /\ c \notin DOMAIN connectedClients
        /\ activeSessions[T].expiry = now
        /\ activeSessions[T].name # Anonymous
        /\ \A d \in DOMAIN connectedClients : connectedClients[d].token # T

\* the frames that carry an operator-only command
AdminCommandMessages ==
    { [ type |-> t ] : t \in { "play", "pause", "syncAll", "requestVideoList",
                              "requestViewerList" } }
    \cup SeekMessages \cup ChangeVideoMessages

IsUnauthenticated(c) ==
    readyState[c] = "open" /\ c \notin DOMAIN connectedClients

\* C11: every frame other than auth that arrives on an open socket which has
\* not authenticated is answered with one error frame to that socket, nothing
\* is sent to anybody else, and the master state, the client map and the
\* session table are what they were.
C11_UnauthenticatedGate ==
    \A c \in Conns, m \in ControlMessages :
        IsUnauthenticated(c) =>
            LET W == After(c, m)
            IN  /\ Len(W.out[c]) = 1
                /\ W.out[c][1].type = "error"
                /\ W.out[c][1].message =
                       IF m.type = "invalid" THEN "Invalid message format"
                                             ELSE "Not authenticated"
                /\ \A d \in Conns \ {c} : W.out[d] = << >>
                /\ W.masterState = masterState
                /\ W.connectedClients = connectedClients
                /\ W.activeSessions = activeSessions

\* a socket that has not authenticated sends pause while an operator has the
\* master playing
C11_Witness ==
    \E c, d \in Conns :
        /\ IsUnauthenticated(c) /\ IsOperator(d)
        /\ masterState.isPlaying
        /\ After(c, PauseMsg).out[c] = << ErrorFrame("Not authenticated") >>
        /\ After(c, PauseMsg).masterState.isPlaying


(* ------------------------------ C12 ------------------------------------ *)
\* C12: an auth frame that carries a token is decided by the token alone,
\* whatever password and name come with it; if the token was never issued or
\* its time to live has elapsed the reply is auth_fail, no session is created
\* and the socket is not registered.
C12_TokenPrecedence ==
    \A c \in Conns, m \in AuthMessages :
        ( IsUnauthenticated(c) /\ m.token # 0 ) =>
            LET W == After(c, m)
            IN  /\ W = After(c, TokenOnly(m.token))
                /\ ~ ( m.token \in DOMAIN minted /\ minted[m.token].expiry > now )
                     => /\ Len(W.out[c]) = 1
                        /\ W.out[c][1].type = "auth_fail"
                        /\ c \notin DOMAIN W.connectedClients
                        /\ W.minted = minted
                        /\ W.nextToken = nextToken

\* a frame with a token whose time to live has just elapsed and the viewer
\* password registers the socket
C12_Witness ==
    \E c \in Conns, T \in DOMAIN minted :
        /\ IsUnauthenticated(c)
        /\ minted[T].expiry = now
        /\ c \in DOMAIN After(c, [ type |-> "auth", token |-> T,
                                   password |-> VIEWER_PASSWORD,
                                   name |-> Undefined ]).connectedClients


(* ------------------------------ C13 ------------------------------------ *)
\* C13: an open socket that has not authenticated has its auth timer pending,
\* and when the timer fires the socket is sent the error "Authentication timed
\* out" and terminated; a registered socket has no auth timer pending, the
\* timer's callback does nothing to it, and no step terminates it.
C13_AuthTimeout ==
    /\ [] \A c \in Conns :
            LET W == AuthTimeoutFireW(World, c)
            IN  /\ IsUnauthenticated(c) =>
                    /\ authTimeout[c]
                    /\ W.out[c] = << ErrorFrame("Authentication timed out") >>
                    /\ W.readyState[c] = "closing"
                /\ c \in DOMAIN connectedClients =>
                    /\ ~ authTimeout[c]
                    /\ W.readyState = readyState
                    /\ W.connectedClients = connectedClients
                    /\ NothingSent(W)
    /\ [][ \A c \in Conns :
             ( readyState[c] = "open" /\ readyState'[c] = "closing" )
                 => c \notin DOMAIN connectedClients ]_vars

\* the timer has fired for a socket whose auth had failed, while another
\* socket that authenticated in time is still open and registered
C13_Witness ==
    \E c, d \in Conns :
        /\ readyState[c] = "closing" /\ c \in authFailed
        /\ readyState[d] = "open" /\ d \in DOMAIN connectedClients
        /\ ~ authTimeout[d]


(* --------------------------- C14 and C15 ------------------------------- *)
\* the world after the heartbeat check of the present state
AfterCheck == CheckHeartbeatsW(World, DOMAIN connectedClients)

\* C14: a heartbeat check terminates an open registered client exactly when
\* the check takes its missedHeartbeats counter above 2, and a client it
\* terminates has been silent for at least the last two checks: a client from
\* which a frame arrives between every two consecutive checks is never
\* terminated.
C14_HeartbeatThreshold ==
    \A c \in DOMAIN connectedClients :
        readyState[c] = "open" =>
            /\ AfterCheck.readyState[c] = "closing"
                  <=> connectedClients[c].missedHeartbeats + 1 > 2
            /\ AfterCheck.readyState[c] = "closing"
                  => AfterCheck.checksSinceMessage[c] >= 2

\* a frame has arrived from the client since the last check, and the next
\* check terminates it
C14_Witness ==
    \E c \in DOMAIN connectedClients :
        /\ readyState[c] = "open"
        /\ checksSinceMessage[c] = 0
        /\ connectedClients[c].missedHeartbeats = 2
        /\ AfterCheck.readyState[c] = "closing"

\* C15: every frame that arrives from an open registered client, whatever its
\* type and whether it is valid or not, leaves that client's missedHeartbeats
\* counter at 0.
C15_HeartbeatReset ==
    \A c \in Conns : \A m \in TokenAuths(c) \cup ControlMessages :
        ( readyState[c] = "open" /\ c \in DOMAIN connectedClients ) =>
            /\ c \in DOMAIN After(c, m).connectedClients
            /\ After(c, m).connectedClients[c].missedHeartbeats = 0

\* after two checks, a malformed frame and an auth frame leave the counter at
\* 2, where a requestSync resets it
C15_Witness ==
    \E c \in DOMAIN connectedClients :
        /\ readyState[c] = "open"
        /\ connectedClients[c].missedHeartbeats = 2
        /\ After(c, [ type |-> "invalid" ]).connectedClients[c].missedHeartbeats = 2
        /\ After(c, TokenOnly(c)).connectedClients[c].missedHeartbeats = 2
        /\ After(c, [ type |-> "requestSync" ]).connectedClients[c].missedHeartbeats = 0


(* ------------------------------ C16 ------------------------------------ *)
\* C16: the master rate is within [MIN_PLAYBACK_RATE, MAX_PLAYBACK_RATE] in
\* every reachable state, and from every rate r of that range, with the
\* clients of the state, neither a tick of the rate controller nor a
\* setMasterState (play, pause, changeVideo, seek) leaves the range.
C16_RateBounds ==
    /\ masterState.playbackRate \in MIN_PLAYBACK_RATE .. MAX_PLAYBACK_RATE
    /\ \A r \in MIN_PLAYBACK_RATE .. MAX_PLAYBACK_RATE :
        LET ms == [ masterState EXCEPT !.playbackRate = r, !.isPlaying = TRUE ]
        IN  /\ AdjustPlaybackRate(ms, connectedClients, now).ms.playbackRate
                  \in MIN_PLAYBACK_RATE .. MAX_PLAYBACK_RATE
            /\ \A newState \in
                    { NewState(Some(TRUE), Undefined, Undefined),
                      NewState(Some(FALSE), Undefined, Undefined),
                      NewState(Undefined, Some(HlsA), Undefined),
                      NewState(Undefined, Some(HlsB), Undefined),
                      NewState(Undefined, Undefined, Some(0)) } :
                  SetMasterState(ms, rateAdjustTimerId, masterBroadcastTimerId,
                                 newState, now).ms.playbackRate
                      \in MIN_PLAYBACK_RATE .. MAX_PLAYBACK_RATE

\* the controller has slowed the master down and a client is still behind:
\* from the lowest rate the next tick keeps the rate, from one step above it
\* the tick stops at the lowest rate
C16_Witness ==
    /\ masterState.isPlaying
    /\ masterState.playbackRate < MAX_PLAYBACK_RATE
    /\ ClientsBehind(connectedClients) # {}
    /\ AdjustedRate(MIN_PLAYBACK_RATE, connectedClients) = MIN_PLAYBACK_RATE
    /\ AdjustedRate(MIN_PLAYBACK_RATE + PLAYBACK_RATE_ADJUST_STEP, connectedClients)
          = MIN_PLAYBACK_RATE


(* ------------------------------ C17 ------------------------------------ *)
\* drift samples on both sides of each threshold, and no sample
DriftSamples ==
    { Undefined, Some(0), Some(DRIFT_THRESHOLD_LOW),
      Some(DRIFT_THRESHOLD_HIGH + 1), Some(0 - DRIFT_THRESHOLD_HIGH - 1) }

\* C17: every registered client's sync interval is within [MIN_SYNC_INTERVAL,
\* MAX_SYNC_INTERVAL], and for every configuration min <= max and step >= 0,
\* from every interval within [min, max] and for every drift, with the master
\* playing or paused, the adjusted interval is within [min, max] again.
C17_SyncIntervalBounds ==
    /\ \A c \in DOMAIN connectedClients :
          connectedClients[c].currentSyncInterval
              \in MIN_SYNC_INTERVAL .. MAX_SYNC_INTERVAL
    /\ \A min \in 1 .. MaxConfig, max \in 1 .. MaxConfig, step \in 0 .. MaxConfig :
          \A interval \in min .. max, drift \in DriftSamples :
              AdjustClientSyncInterval(min, max, step, masterState.isPlaying,
                                       drift, interval) \in min .. max

\* a client has reported a drift beyond the high threshold while the master
\* plays: with a step larger than the room left the interval stops at the
\* minimum, and with a drift of 0 it stops at the maximum
C17_Witness ==
    \E c \in DOMAIN connectedClients :
        /\ masterState.isPlaying
        /\ connectedClients[c].lastDrift # Undefined
        /\ connectedClients[c].lastDrift[1] < 0 - DRIFT_THRESHOLD_HIGH
        /\ AdjustClientSyncInterval(1, MaxConfig, MaxConfig, TRUE,
                                    connectedClients[c].lastDrift, 2) = 1
        /\ AdjustClientSyncInterval(1, MaxConfig, MaxConfig, TRUE, Some(0), 2)
              = MaxConfig


(* ------------------------------ C18 ------------------------------------ *)
\* the handler that ended in world W sent no syncState to anybody
NoSyncState(W) ==
    \A d \in Conns : \A i \in 1 .. Len(W.out[d]) : W.out[d][i].type # "syncState"

Watching(c) ==
    /\ masterState.isPlaying
    /\ readyState[c] = "open"
    /\ c \in DOMAIN connectedClients

\* a sync timer of socket c is due
TimerDue(c) == \E i \in 1 .. Len(syncTimers[c]) : syncTimers[c][i] <= now

\* in world W every open registered client that was sent a syncState while
\* the master plays has its one timer due currentSyncInterval later
SnapshotRearms(W) ==
    \A c \in DOMAIN W.connectedClients :
        ( /\ W.masterState.isPlaying
          /\ IsOpen(W, c)
          /\ \E i \in 1 .. Len(W.out[c]) : W.out[c][i].type = "syncState" ) =>
            W.syncTimers[c] =
                << W.now + W.connectedClients[c].currentSyncInterval \div 1000 >>

Destroyed(W, c) ==
    /\ c \notin DOMAIN W.connectedClients
    /\ W.syncTimers[c] = << >>

\* C20: no sync timer is pending for a socket that has no client record;
\* each way of destroying a registered client (the close event, a send that
\* throws, the heartbeat check finding the socket not open) removes its record
\* and leaves no timer of it pending; and a sync timer callback that runs for
\* a socket without a record sends nothing.
C20_TimerCancelledOnDestroy ==
    /\ \A c \in Conns :
          c \notin DOMAIN connectedClients => syncTimers[c] = << >>
    /\ \A c \in DOMAIN connectedClients :
          /\ Destroyed(CloseW(World, c), c)
          /\ IsOpen(World, c) =>
                Destroyed(Send([ World EXCEPT !.sendThrows = @ \cup {c} ],
                               c, ErrorFrame("x")), c)
          /\ ~ IsOpen(World, c) => Destroyed(CheckHeartbeat(World, c), c)
    /\ \A c \in Conns :
          c \notin DOMAIN connectedClients =>
              SyncTimerFireW([ World EXCEPT !.syncTimers[c] = << now >> ],
                             c, 1).out = World.out

\* a registered client with a pending sync timer, whose close event leaves
\* neither the record nor the timer
C20_Witness ==
    \E c \in DOMAIN connectedClients :
        /\ syncTimers[c] # << >>
        /\ Destroyed(CloseW(World, c), c)


Rejected(W, c) ==
    /\ W.masterState = masterState
    /\ Len(W.out[c]) = 1 /\ W.out[c][1].type = "error"
    /\ \A d \in Conns \ {c} : W.out[d] = << >>

\* C22 (changeVideo): every changeVideo of a registered client whose video
\* is missing, lacks the 'hls:' prefix, has an empty name or has a name with
\* a character outside [A-Za-z0-9_-] is rejected.
C22_InvalidVideoRejected ==
    \A c \in DOMAIN connectedClients :
        \A name \in { << >>, << ".", "." >>, << "a", "/", "b" >>,
                      << "a", "\\" >>, << "a", "\n" >>, << "a", ".", "b" >> } :
            \A v \in { Undefined, Some(name), Some(HlsA \o name),
                       Some(SubSeq(HlsA, 1, 4) \o name) } :
                ( readyState[c] = "open" /\ v # Some(HlsA) ) =>
                    Rejected(After(c, [ type |-> "changeVideo", video |-> v ]), c)

\* C22: besides, every seek of a registered client whose time is missing or
\* is not the text of a number >= 0 (an optional '-' and digits, nothing
\* else) is rejected.
C22_RejectedCommandsChangeNothing ==
    /\ C22_InvalidVideoRejected
    /\ \A c \in DOMAIN connectedClients :
          \A time \in { Undefined, Some(<< >>), Some(<< "x" >>),
                        Some(<< "-", "1" >>), Some(<< "1", "x" >>),
                        Some(<< "0", "/", "1" >>) } :
              readyState[c] = "open" =>
                  Rejected(After(c, [ type |-> "seek", time |-> time ]), c)

\* an operator's seek with time '1x' while the master is away from 1 s: the
\* master position becomes 1 s and a syncState is sent
C22_Witness ==
    \E c \in Conns :
        /\ IsOperator(c)
        /\ EffectiveTime # 100
        /\ GetEffectiveTime(After(c, SeekMsg(<< "1", "x" >>)).masterState, now) = 100
        /\ After(c, SeekMsg(<< "1", "x" >>)).out[c][1].type = "syncState"

(* ------------------------------ C23 ------------------------------------ *)
\* C23: in every answer of the HLS file handler, a request with a part that
\* contains '..' or a character outside [A-Za-z0-9_.-] has status 400; the
\* security check answers 403 for the path the request's parts resolve to
\* whenever that path does not start with the processed directory; status
\* 200 comes only with all parts valid and the resolved path starting with
\* the processed directory; and the file streamed then is a file below the
\* processed directory.
C23_ServeConfinement ==
    ( hlsRequest # Undefined /\ hlsRequest[1].res # Undefined ) =>
        LET req == hlsRequest[1]
            res == req.res[1]
            text == IF req.subPath = Undefined
                    THEN req.streamName
                    ELSE req.streamName \o << "/" >> \o req.subPath[1]
            parts == SplitParts(text)
            bad == \E i \in 1 .. Len(parts) :
                      \/ IncludesDotDot(parts[i])
                      \/ \E j \in 1 .. Len(parts[i]) :
                            parts[i][j] \notin NameChars \cup { "." }
            resolved == NormalizedPath(ProcessedDir, parts)
            Below(path, dir) ==
                Len(path) >= Len(dir) /\ SubSeq(path, 1, Len(dir)) = dir
        IN  /\ bad => res.status = 400 /\ res.file = Undefined
            /\ ~ Below(resolved, ProcessedDir) =>
                  ServeNormalizedPath(resolved).status = 403
            /\ res.status = 200 =>
                  /\ ~ bad
                  /\ Below(resolved, ProcessedDir)
                  /\ res.file # Undefined
                  /\ Below(res.file[1], ProcessedDir \o << "/" >>)
                  /\ res.file[1] \in FilesOnDisk
            /\ res.status # 200 => res.file = Undefined

\* a request whose parts resolve to a file that exists outside the processed
\* directory was answered 400, and streamed nothing
C23_Witness ==
    /\ hlsRequest # Undefined
    /\ hlsRequest[1].streamName = << ".", "." >>
    /\ hlsRequest[1].subPath = Some(<< "a" >>)
    /\ NormalizedPath(ProcessedDir, << << ".", "." >>, << "a" >> >>) \in FilesOnDisk
    /\ hlsRequest[1].res = Some([ status |-> 400, file |-> Undefined ])


(* ------------------------------ C24 ------------------------------------ *)
\* C24: every step that ends with the master playing, is not the handling of
\* a seek, and leaves the playback rate as it was (a play, the clock
\* advancing, a timer, a connection coming or going, any other frame) does
\* not decrease getEffectiveTime(); a pause or an effective changeVideo ends
\* with the master paused.
C24_MonotonePlayback ==
    [][ ( /\ masterState'.isPlaying
          /\ masterState'.playbackRate = masterState.playbackRate
          /\ ~ \E c \in Conns, m \in SeekMessages : HandleMessage(c, m) ) =>
            EffectiveTimeNext >= EffectiveTime ]_vars

\* the master has been playing for some time, at a position past 1 s, with
\* an operator connected who may send play again
C24_Witness ==
    /\ masterState.isPlaying
    /\ now > masterState.lastUpdateTime
    /\ EffectiveTime > 100
    /\ \E c \in Conns : IsOperator(c)


(* ------------------------------ C25 ------------------------------------ *)
\* C25: once the termination signal has been handled, no socket is open
\* (each was sent its close before the listener closed), the rate-adjust and
\* master-broadcast intervals are not set, so neither can fire, and no sync
\* timer that fires sends a syncState.
C25_GracefulShutdown ==
    shutDown =>
        /\ \A c \in Conns : readyState[c] # "open"
        /\ rateAdjustTimerId = Undefined
        /\ ~ masterBroadcastTimerId
        /\ \A c \in Conns : \A i \in 1 .. Len(syncTimers[c]) :
              NoSyncState(SyncTimerFireW(World, c, i))

\* after the termination signal an operator's socket is still in its closing
\* handshake while the master is paused: a play frame that arrives on it sets
\* both intervals again
C25_Witness ==
    \E c \in Conns :
        /\ shutDown
        /\ readyState[c] = "goingAway"
        /\ c \in DOMAIN connectedClients /\ connectedClients[c].role = "admin"
        /\ ~ masterState.isPlaying
        /\ After(c, PlayMsg).rateAdjustTimerId # Undefined
        /\ After(c, PlayMsg).masterBroadcastTimerId


(* ------------------------------ C26 ------------------------------------ *)
\* C26: a client that has just been registered by its auth frame, and so has
\* sent no clientTimeUpdate yet, is in none of the sets the rate controller
\* counts: the clients with data (N), the clients behind (B), the clients
\* ahead (A).
C26_RatePopulation ==
    \A c \in Conns : \A m \in TokenAuths(c) :
        ( readyState[c] = "open" /\ c \notin DOMAIN connectedClients
          /\ c \in DOMAIN After(c, m).connectedClients ) =>
            LET cc == After(c, m).connectedClients
            IN  /\ c \notin ClientsWithData(cc)
                /\ c \notin ClientsBehind(cc)
                /\ c \notin ClientsAhead(cc)

\* a socket whose auth registers it while the master plays; the new client
\* is counted among the clients with data
C26_Witness ==
    \E c \in Conns : \E m \in TokenAuths(c) :
        /\ readyState[c] = "open" /\ c \notin DOMAIN connectedClients
        /\ masterState.isPlaying
        /\ c \in DOMAIN After(c, m).connectedClients
        /\ c \in ClientsWithData(After(c, m).connectedClients)


(* ------------------------------ C27 ------------------------------------ *)
\* C27: when the rate-adjust interval fires while the master plays, more
\* than a quarter of the counted clients have a lastDrift below
\* CLIENT_BEHIND_THRESHOLD and the rate is above MIN_PLAYBACK_RATE, the new
\* rate is the old one less one PLAYBACK_RATE_ADJUST_STEP, and never below
\* MIN_PLAYBACK_RATE; with two clients, one at drift 0 and one behind, the
\* first such tick has already lowered the rate.
C27_RateDecreaseRule ==
    ( /\ masterState.isPlaying
      /\ ClientsWithData(connectedClients) # {}
      /\ 4 * Cardinality(ClientsBehind(connectedClients))
            > Cardinality(ClientsWithData(connectedClients))
      /\ masterState.playbackRate > MIN_PLAYBACK_RATE ) =>
        LET after == RateAdjustTickW(World).masterState.playbackRate
        IN  /\ after = Max(MIN_PLAYBACK_RATE,
                           masterState.playbackRate - PLAYBACK_RATE_ADJUST_STEP)
            /\ after < masterState.playbackRate

\* scenario S2: two clients, one with drift 0 and one 1 s or more behind,
\* the master playing at the normal rate, and the tick lowers the rate
C27_Witness ==
    /\ masterState.isPlaying
    /\ masterState.playbackRate = MAX_PLAYBACK_RATE
    /\ rateAdjustTimerId # Undefined
    /\ \E c, d \in DOMAIN connectedClients :
          /\ c # d
          /\ connectedClients[c].lastDrift = Some(0)
          /\ connectedClients[d].lastDrift # Undefined
          /\ connectedClients[d].lastDrift[1] < CLIENT_BEHIND_THRESHOLD
    /\ RateAdjustTickW(World).masterState.playbackRate
          = MAX_PLAYBACK_RATE - PLAYBACK_RATE_ADJUST_STEP


(* ------------------------------ C28 ------------------------------------ *)
\* C28: the handling of a valid clientTimeUpdate from a registered client
\* stores, as that client's lastDrift, the reported time less the master's
\* position at that moment: the anchor, plus, while the master plays, the
\* time since the marker multiplied by the rate; the same while paused,
\* where the position is the anchor itself.
C28_DriftComputation ==
    \A c \in DOMAIN connectedClients :
        \A ct \in { 0, 30, 200 } : \A p \in BOOLEAN :
            LET m == [ type |-> "clientTimeUpdate", clientTime |-> Some(ct),
                       playbackRate |-> Some(100), isPlaying |-> Some(p),
                       name |-> Undefined ]
                position ==
                    IF masterState.isPlaying
                    THEN masterState.currentTime
                           + (now - masterState.lastUpdateTime)
                               * masterState.playbackRate
                    ELSE masterState.currentTime
            IN  readyState[c] = "open" =>
                    After(c, m).connectedClients[c].lastDrift
                        = Some(ct - Max(0, position))

\* a report of 0.3 s arrives while the master, paused at a position it
\* reached by playing, has an anchor above 0; the stored drift is negative
C28_Witness ==
    \E c \in DOMAIN connectedClients :
        LET m == [ type |-> "clientTimeUpdate", clientTime |-> Some(30),
                   playbackRate |-> Some(100), isPlaying |-> Some(FALSE),
                   name |-> Undefined ]
        IN  /\ readyState[c] = "open"
            /\ ~ masterState.isPlaying
            /\ masterState.currentTime > 30
            /\ After(c, m).connectedClients[c].lastDrift
                  = Some(30 - masterState.currentTime)


(* ------------------------------ C29 ------------------------------------ *)
\* C29: the interval of the rate controller and the interval of the
\* periodic broadcast are each set exactly in the states where the master
\* plays and at least one client is registered; in particular neither is
\* set before the first play.
C29_LoopLifecycle ==
    LET watched == masterState.isPlaying /\ DOMAIN connectedClients # {}
    IN  /\ masterBroadcastTimerId <=> watched
        /\ (rateAdjustTimerId # Undefined) <=> watched

\* a client is registered with a master that is paused, and the interval of
\* the rate controller is set
C29_Witness ==
    /\ DOMAIN connectedClients # {}
    /\ ~ masterState.isPlaying
    /\ rateAdjustTimerId # Undefined
    /\ ~ masterBroadcastTimerId


(* ------------------------------ C30 ------------------------------------ *)
\* C30: in every reachable state a paused master has the normal rate
\* MAX_PLAYBACK_RATE, and the callback of the rate controller's interval
\* leaves the rate of a paused master as it is.
C30_PausedMeansNormalRate ==
    ~ masterState.isPlaying =>
        /\ masterState.playbackRate = MAX_PLAYBACK_RATE
        /\ RateAdjustTickW(World).masterState.playbackRate
              = masterState.playbackRate

\* the operator pauses a master that plays below the normal rate, and the
\* master is paused at the normal rate afterwards
C30_Witness ==
    \E c \in DOMAIN connectedClients :
        /\ readyState[c] = "open"
        /\ masterState.isPlaying
        /\ masterState.playbackRate < MAX_PLAYBACK_RATE
        /\ ~ After(c, [ type |-> "pause" ]).masterState.isPlaying
        /\ After(c, [ type |-> "pause" ]).masterState.playbackRate
              = MAX_PLAYBACK_RATE


(* ------------------------------ C31 ------------------------------------ *)
\* in world W every open registered client that was sent a syncState has no
\* timer but the one set at that moment: one timer due currentSyncInterval
\* later while the master plays, none while it is paused
Rescheduled(W) ==
    \A c \in DOMAIN W.connectedClients :
        ( IsOpen(W, c)
          /\ \E i \in 1 .. Len(W.out[c]) : W.out[c][i].type = "syncState" ) =>
            W.syncTimers[c] =
                IF W.masterState.isPlaying
                THEN << W.now + W.connectedClients[c].currentSyncInterval \div 1000 >>
                ELSE << >>

\* C31: no socket ever has more than one sync timer pending; and every
\* handler, sync-timer callback, broadcast tick and rate tick that sends a
\* client a syncState leaves that client with exactly the timer set at that
\* moment (none while paused), whatever time reports have replaced the
\* client's record before.
C31_SingleSyncTimer ==
    /\ \A c \in Conns : Len(syncTimers[c]) <= 1
    /\ \A d \in Conns : \A m \in TokenAuths(d) \cup ControlMessages :
          readyState[d] = "open" => Rescheduled(After(d, m))
    /\ \A d \in Conns : \A i \in 1 .. Len(syncTimers[d]) :
          Rescheduled(SyncTimerFireW(World, d, i))
    /\ Rescheduled(MasterBroadcastTickW(World))
    /\ Rescheduled(RateAdjustTickW(World))

\* a client whose record was replaced by a time report has a timer pending
\* that was set earlier, and the periodic broadcast replaces it by one timer
\* due currentSyncInterval from now
C31_Witness ==
    \E c \in DOMAIN connectedClients :
        /\ Watching(c)
        /\ connectedClients[c].lastDrift # Some(0)
        /\ Len(syncTimers[c]) = 1
        /\ syncTimers[c][1] < now + connectedClients[c].currentSyncInterval \div 1000
        /\ MasterBroadcastTickW(World).syncTimers[c]
              = << now + connectedClients[c].currentSyncInterval \div 1000 >>


(* ------------------------------ C32 ------------------------------------ *)
\* the types of the frames the handler that ended in world W sent to d
FrameTypes(W, d) == [ i \in 1 .. Len(W.out[d]) |-> W.out[d][i].type ]

\* C32: when the handling of an auth frame has registered the socket, the
\* new client has been sent, in this order, auth_success, a syncState and,
\* if it is an operator, the stream list and the viewer table; and the
\* handling ends with the updated viewer table sent to every other open
\* operator, and nothing sent to any viewer.
C32_PostAuthOrder ==
    \A c \in Conns : \A m \in AuthMessages :
        ( /\ readyState[c] = "open"
          /\ c \notin DOMAIN connectedClients
          /\ c \in DOMAIN After(c, m).connectedClients ) =>
            LET W == After(c, m)
            IN  /\ FrameTypes(W, c) =
                      IF W.connectedClients[c].role = "admin"
                      THEN << "auth_success", "syncState", "videoList", "viewerList" >>
                      ELSE << "auth_success", "syncState" >>
                /\ \A d \in DOMAIN connectedClients :
                      readyState[d] = "open" =>
                          W.out[d] = IF connectedClients[d].role = "admin"
                                     THEN << ViewerListFrame(W) >>
                                     ELSE << >>

\* an operator's auth succeeds while another operator is registered: the
\* other operator has been sent the viewer table when the handler returns,
\* the new one has its lists still to come
C32_Witness ==
    \E c \in Conns : \E m \in AuthMessages :
        /\ readyState[c] = "open"
        /\ c \notin DOMAIN connectedClients
        /\ c \in DOMAIN After(c, m).connectedClients
        /\ After(c, m).connectedClients[c].role = "admin"
        /\ After(c, m).pendingAdminData[c]
        /\ \E d \in DOMAIN connectedClients :
              /\ connectedClients[d].role = "admin"
              /\ After(c, m).out[d] = << ViewerListFrame(After(c, m)) >>


(* ------------------------------ C33 ------------------------------------ *)
\* C33: the step that completes an encode, by the end of its refresh after a
\* success or by a failure, leaves its source out of the encoding queue;
\* after the step of a failure the source has no master.m3u8 either, so that
\* a scan that comes to it then admits it; and an encode is started by a
\* scan only.
C33_EncodeCompletion ==
    [][ /\ \A i \in DOMAIN encodes :
             ( encodes[i].pc # "done" /\ encodes'[i].pc = "done" ) =>
                 /\ encodes[i].file \notin encodingQueue'
                 /\ encodes[i].pc = "encoding" =>
                      /\ OutputName(encodes[i].file) \notin processed'
                      /\ SkipEntries(<< encodes[i].file >>, encodingQueue')
                            = << encodes[i].file >>
                      /\ AdmitAfterAccess(encodingQueue', encodes[i].file)
        /\ Len(encodes') > Len(encodes) =>
             \E s \in Scans :
                 /\ scans[s].pc = "access"
                 /\ encodes' = Append(encodes, [ file |-> Head(scans[s].entries),
                                                 pc |-> "encoding",
                                                 snapshot |-> {} ])
      ]_vars

\* a source whose encode has failed is admitted again: an earlier encode of
\* it is done, a later one is running, and no stream of it exists
C33_Witness ==
    \E i, j \in DOMAIN encodes :
        /\ i < j
        /\ encodes[i].file = encodes[j].file
        /\ encodes[i].pc = "done"
        /\ encodes[j].pc = "encoding"
        /\ OutputName(encodes[i].file) \notin processed
        /\ \A k \in DOMAIN encodes : k \notin { i, j } => encodes[k].file # encodes[i].file


(* ------------------------------ C34 ------------------------------------ *)
\* C34: once the completion handling of a successful encode has finished
\* (the source's only encode is done and its stream is on disk),
\* getVideoList returns a list that contains the new stream, whatever scans
\* and refreshes run at the same time.
C34_CacheInvalidation ==
    \A i \in DOMAIN encodes :
        ( /\ encodes[i].pc = "done"
          /\ OutputName(encodes[i].file) \in processed
          /\ \A j \in DOMAIN encodes :
                encodes[j].file = encodes[i].file => j = i ) =>
            OutputName(encodes[i].file) \in GetVideoList(hlsStreams, processed)

\* the encode of a source has succeeded and its refresh has stored a list
\* with the new stream, while the refresh of a scan holds a list it read
\* before and has still to store it
C34_Witness ==
    \E i \in DOMAIN encodes : \E s \in Scans :
        /\ encodes[i].pc = "done"
        /\ OutputName(encodes[i].file) \in processed
        /\ OutputName(encodes[i].file) \in hlsStreams
        /\ scans[s].pc = "refreshWrite"
        /\ scans[s].snapshot # {}
        /\ OutputName(encodes[i].file) \notin scans[s].snapshot


(* ------------------------------ C35 ------------------------------------ *)
\* C35: a step that deletes a session which has not expired, which only
\* invalidateSession(token) does, leaves no client registered with that
\* token in the client map.
C35_RevocationDestroysClient ==
    [][ \A token \in DOMAIN activeSessions :
            ( /\ token \notin DOMAIN activeSessions'
              /\ ~ IsExpired(activeSessions[token], now) ) =>
                \A c \in DOMAIN connectedClients' :
                    connectedClients'[c].token # token
      ]_vars

\* a client is registered on an open socket with a token whose session has
\* been deleted before its expiry
C35_Witness ==
    \E c \in DOMAIN connectedClients :
        /\ readyState[c] = "open"
        /\ connectedClients[c].token \in DOMAIN minted
        /\ connectedClients[c].token \notin DOMAIN activeSessions
        /\ ~ IsExpired(minted[connectedClients[c].token], now)


(* ------------------------------ C36 ------------------------------------ *)
\* in world W no socket without a client record was sent a syncState
UndisclosedIn(W) ==
    \A d \in Conns :
        d \notin DOMAIN W.connectedClients =>
            \A i \in 1 .. Len(W.out[d]) : W.out[d][i].type # "syncState"

\* C36: no handler, timer callback or tick sends a syncState to a socket
\* that is not registered in the client map.
C36_NoDisclosureBeforeAuth ==
    /\ \A c \in Conns : \A m \in TokenAuths(c) \cup SyncMessages :
          readyState[c] = "open" => UndisclosedIn(After(c, m))
    /\ \A c \in Conns : \A i \in 1 .. Len(syncTimers[c]) :
          UndisclosedIn(SyncTimerFireW(World, c, i))
    /\ UndisclosedIn(MasterBroadcastTickW(World))
    /\ UndisclosedIn(RateAdjustTickW(World))

\* a socket is open and has not authenticated, and the operator's play
\* sends it the syncState of the broadcast
C36_Witness ==
    \E c \in DOMAIN connectedClients : \E d \in Conns :
        /\ readyState[c] = "open" /\ connectedClients[c].role = "admin"
        /\ readyState[d] = "open" /\ d \notin DOMAIN connectedClients
        /\ ~ masterState.isPlaying
        /\ After(c, [ type |-> "play" ]).out[d]
              = << SyncStateFrame(After(c, [ type |-> "play" ]).masterState, now) >>


C38_NoSpeedUpWhileLagging ==
    ( /\ masterState.isPlaying
      /\ ClientsWithData(connectedClients) # {}
      /\ 4 * Cardinality(ClientsBehind(connectedClients))
            > Cardinality(ClientsWithData(connectedClients)) ) =>
        RateAdjustTickW(World).masterState.playbackRate
            <= masterState.playbackRate

\* the master plays at the lowest rate, one client of three is behind and
\* two are ahead, and the tick raises the rate
C38_Witness ==
    /\ masterState.isPlaying
    /\ masterState.playbackRate = MIN_PLAYBACK_RATE
    /\ Cardinality(ClientsBehind(connectedClients)) = 1
    /\ Cardinality(ClientsAhead(connectedClients)) = 2
    /\ Cardinality(ClientsWithData(connectedClients)) = 3
    /\ RateAdjustTickW(World).masterState.playbackRate
          = MIN_PLAYBACK_RATE + PLAYBACK_RATE_ADJUST_STEP


(* ------------------------------ C39 ------------------------------------ *)
\* C39: an auth frame on an open connection that already has a client record
\* is answered with the one frame error "Already authenticated" to that
\* connection and changes nothing else: sessions, minted tokens, the client
\* records (role, name, token and the rest, one record per connection), the
\* master state, the timers and every other socket stay as they were.
C39_ReAuthNoOp ==
    \A c \in DOMAIN connectedClients : \A m \in AuthMessages :
        readyState[c] = "open" /\ c \notin sendThrows =>
            LET W == After(c, m)
            IN  /\ W = [ World EXCEPT !.out[c] =
                          << ErrorFrame("Already authenticated") >> ]
                /\ W.activeSessions = activeSessions
                /\ W.nextToken = nextToken
                /\ DOMAIN W.connectedClients = DOMAIN connectedClients
                /\ W.connectedClients[c].role = connectedClients[c].role
                /\ W.connectedClients[c].name = connectedClients[c].name
                /\ W.connectedClients[c].token = connectedClients[c].token

\* a viewer is registered on an open connection while a session other than
\* its own is live, so that a second auth with the operator's password or
\* with that token would succeed on a fresh connection
C39_Witness ==
    \E c \in DOMAIN connectedClients :
        /\ readyState[c] = "open"
        /\ connectedClients[c].role = "viewer"
        /\ \E token \in DOMAIN activeSessions :
              /\ token # connectedClients[c].token
              /\ ValidateSession(activeSessions, token, now).session # Undefined
        /\ \E m \in AuthMessages :
              /\ m.password = ADMIN_PASSWORD
              /\ Received(After(c, m), c, ErrorFrame("Already authenticated"))


(* ------------------------------ C40 ------------------------------------ *)
\* the master plays, at least one client is registered and no client is
\* below CLIENT_BEHIND_THRESHOLD
NoneBehind ==
    /\ masterState.isPlaying
    /\ DOMAIN connectedClients # {}
    /\ ClientsBehind(connectedClients) = {}

\* the next firing of the rate interval falls within MaxTime, and the
\* position stays within MaxPosition until then
TickInReach ==
    /\ rateAdjustTimerId # Undefined
    /\ rateAdjustTimerId[1] + RATE_ADJUSTMENT_INTERVAL <= MaxTime
    /\ masterState.currentTime
          + ( MaxTime - masterState.lastUpdateTime ) * MAX_PLAYBACK_RATE
          <= MaxPosition

\* C40: while the master plays with a client registered and no client
\* behind, every firing of the rate interval raises the rate by one step,
\* capped at the normal rate, and no other step changes the rate (so a rate
\* at the normal rate stays there); and with the interval firing, a rate
\* below the normal rate gets one step higher unless some client falls
\* behind first, step after step up to the normal rate.
C40_RateRecovery ==
    /\ [][ NoneBehind =>
             IF rateAdjustTimerId' # rateAdjustTimerId
             THEN masterState'.playbackRate =
                    Min(MAX_PLAYBACK_RATE,
                        masterState.playbackRate + PLAYBACK_RATE_ADJUST_STEP)
             ELSE masterState'.playbackRate = masterState.playbackRate ]_vars
    /\ \A r \in MIN_PLAYBACK_RATE .. MAX_PLAYBACK_RATE - 1 :
          ( NoneBehind /\ TickInReach /\ masterState.playbackRate = r )
             ~> ( \/ ~ NoneBehind
                  \/ masterState.playbackRate =
                        Min(MAX_PLAYBACK_RATE, r + PLAYBACK_RATE_ADJUST_STEP) )

\* the rate is back at the normal rate after two firings of the interval
\* that each raised it by one step, with no client behind
C40_Witness ==
    /\ NoneBehind
    /\ now = 2 * RATE_ADJUSTMENT_INTERVAL
    /\ rateAdjustTimerId = Some(now)
    /\ masterState.lastUpdateTime = now
    /\ masterState.playbackRate = MAX_PLAYBACK_RATE
    /\ masterState.currentTime =
          RATE_ADJUSTMENT_INTERVAL
             * ( 2 * MAX_PLAYBACK_RATE - PLAYBACK_RATE_ADJUST_STEP )

====
